---- MODULE Spec2Model ----
(***************************************************************************)
(* Edge detection and risk ledger of the baccarat side-bet bot.            *)
(*                                                                         *)
(* Money is counted in whole units (one unit stands for 31.25 of the       *)
(* account currency, so the 1000 / 31.25 / 125 scenario of the test suite  *)
(* is 32 / 1 / 4); the Python floats of the source are modelled by exact   *)
(* integers, so rounding of binary floating point is outside the model.    *)
(***************************************************************************)
EXTENDS Integers, Sequences, FiniteSets, TLC

(***************************************************************************)
(* Bounds of the model.                                                    *)
(***************************************************************************)
MaxStake == 2
MaxPayout == 4
MaxProfit == 3
MaxCommission == 1
MaxCalls == 4
MaxFeed == 2
MaxDate == 2
SmallMaxProcessed == 1
MaxIterations == 2

\* reconcile_cleared_orders(max_processed=10000)
DEFAULT_MAX_PROCESSED == 10000

(***************************************************************************)
(* Values of the session the model starts from.                            *)
(***************************************************************************)
StartBalance == 32
LowBalance == 1
StartMaxExposure == 3

\* bet ids are strings
BetIds == {"b1", "b2"}
Stakes == {0, 1, MaxStake}
\* decimal odds; price 5 is the price of the regression scenario
Prices == {2, 5}
Statuses == {"WON", "LOST"}
Payouts == {-1, 0, MaxPayout}
Profits == {-1, MaxProfit}

(***************************************************************************)
(* Fields of a cleared-order dict.  A field is absent (or None), a number, *)
(* or a value float() rejects.                                             *)
(***************************************************************************)
Absent == [kind |-> "absent", v |-> 0]
Num(x) == [kind |-> "num", v |-> x]
Bad == [kind |-> "bad", v |-> 0]

(***************************************************************************)
(* Timestamps.  An ISO-8601 text gives a clock reading and the offset of   *)
(* that clock from UTC (0 when the text gives none), and may end in the    *)
(* designator Z; a datetime in UTC is the number its clock shows, 0 being  *)
(* no datetime (None).                                                     *)
(***************************************************************************)
NoDate == [kind |-> "none", clock |-> 0, offset |-> 0, z |-> FALSE]
IsoText(clock, offset, z) == [kind |-> "iso", clock |-> clock, offset |-> offset, z |-> z]
BadDate == [kind |-> "bad", clock |-> 0, offset |-> 0, z |-> FALSE]

\* the text the exchange sends for a settlement at UTC time d
Utc(d) == IsoText(d, 0, TRUE)

\* settled.rstrip('Z')
rstrip_Z(text) == [text EXCEPT !.z = FALSE]

\* datetime.fromisoformat(text).replace(tzinfo=timezone.utc): the clock reading of
\* the text taken as UTC, whatever offset the text gives; 0 when the text is not
\* ISO-8601 (the exception is swallowed)
settled_utc(text) == IF text.kind = "iso" /\ ~text.z THEN text.clock ELSE 0

\* max_ts.isoformat() of a datetime in UTC
isoformat(dt) == IsoText(dt, 0, FALSE)

\* the (betOutcome, status) fields a cleared order carries; "" is a missing field
OutcomeFields == {<<"WON", "">>, <<"LOST", "">>, <<"", "WON">>, <<"", "">>}

\* well-formed field values and all field values
NumProfits == {Absent} \cup {Num(x) : x \in Profits}
NumCommissions == {Absent} \cup {Num(x) : x \in {0, MaxCommission}}
BadField == {Bad}

ClearedOf(ids, profits, commissions, dates) ==
    {[betId |-> b, profit |-> p, betOutcome |-> o[1], status |-> o[2],
      commissionPaid |-> c, settledDate |-> d] :
        b \in ids, p \in profits, o \in OutcomeFields, c \in commissions, d \in dates}

\* cleared orders as the exchange documents them, and those with a field float() rejects
ClearedOrders == ClearedOf(BetIds, NumProfits, NumCommissions, {NoDate})

\* cleared orders of the exchange feed, with and without a settledDate
FeedOrders ==
    {[betId |-> b, profit |-> f[1], betOutcome |-> f[2], status |-> "",
      commissionPaid |-> f[3], settledDate |-> d] :
        b \in BetIds, d \in {NoDate} \cup {Utc(n) : n \in 1..MaxDate},
        f \in {<<Absent, "LOST", Absent>>, <<Num(MaxProfit), "WON", Num(MaxCommission)>>}}

\* the values of max_processed a caller passes
MaxProcessedValues == {SmallMaxProcessed, DEFAULT_MAX_PROCESSED}
MalformedOrders ==
    ClearedOf(BetIds, NumProfits \cup BadField, NumCommissions \cup BadField, {NoDate}) \ ClearedOrders

Max(a, b) == IF a >= b THEN a ELSE b

(***************************************************************************)
(* Result of a call: None, a returned number, or an exception that left    *)
(* the call.                                                               *)
(***************************************************************************)
None == [kind |-> "None", v |-> 0]
Value(x) == [kind |-> "value", v |-> x]
Raise == [kind |-> "raise", v |-> 0]
\* a returned bool: True is 1, False is 0
Bool(b) == [kind |-> "bool", v |-> IF b THEN 1 ELSE 0]

VARIABLES
    balance,            \* BetManager.balance
    max_exposure,       \* BetManager.max_exposure
    current_exposure,   \* BetManager.current_exposure
    active_bets,        \* BetManager.active_bets: bet id -> [stake, price]
    pnl,                \* BetManager.pnl
    trade_history,      \* BetManager.trade_history
    last,               \* the call made last: operation, arguments, result
    ncalls,             \* number of calls made so far
    life,               \* history: per bet id, what the calls made so far did with it
    booked,             \* history: per bet id, settlements booked since it was last accepted
    disciplined,        \* history: every acceptance passed can_place, only direct settlements with payout >= 0
    state,              \* the reconciliation state dict the caller holds
    state_file,         \* the content of the state file
    csv_rows,           \* the rows of the audit CSV
    exchange,           \* the cleared orders the exchange holds: bet id -> cleared order
    csv_path,           \* whether an audit CSV is configured (config cleared_orders_csv)
    deliveries,         \* history: per bet id, completed reconcile calls whose feed answer held its order
    config,             \* config['bot'] and the operator token of the environment
    loops,              \* main: polling iterations done
    last_cleared_poll,  \* main: whether the reconciliation timer has been set
    submissions,        \* the orders handed to executor.place_bet, in order
    pc,                 \* main: "running" in the while loop, "returned", or "crashed"
    fetches,            \* the get_snapshot calls the api client has served
    rpc,                \* ExchangeAPIClient.json_rpc: the call in flight and how it ended
    sim,                \* SimulatedAPIClient: the fields of the simulator
    reports             \* history: per simulated bet id, the snapshots fetched since it was placed and those that reported it

ledger == <<balance, max_exposure, current_exposure, active_bets, pnl, trade_history>>
history == <<life, booked, disciplined>>
recon == <<state, state_file, csv_rows, exchange, csv_path, deliveries>>
loop == <<config, loops, last_cleared_poll, submissions, pc, fetches>>
clients == <<rpc, sim, reports>>
vars == <<balance, max_exposure, current_exposure, active_bets, pnl, trade_history,
          last, ncalls, life, booked, disciplined,
          state, state_file, csv_rows, exchange, csv_path, deliveries,
          config, loops, last_cleared_poll, submissions, pc, fetches, rpc, sim, reports>>

(***************************************************************************)
(* The BetManager object as one value.                                     *)
(***************************************************************************)
BM == [balance |-> balance, max_exposure |-> max_exposure,
       current_exposure |-> current_exposure, active_bets |-> active_bets,
       pnl |-> pnl, trade_history |-> trade_history]

\* a pop that leaves the key in place (a get)
dict_pop_keeping(d, k) == d

\* dict.pop(k, None): the dict without key k
dict_pop(d, k) == [x \in (DOMAIN d) \ {k} |-> d[x]]

\* d[k] = v
dict_set(d, k, v) == [x \in (DOMAIN d) \cup {k} |-> IF x = k THEN v ELSE d[x]]

BetManager_init(bal, maxexp) ==
    [balance |-> bal, max_exposure |-> maxexp, current_exposure |-> 0,
     active_bets |-> << >>, pnl |-> 0, trade_history |-> << >>]

\* can_place with strict comparisons: a stake that exactly fills a limit is refused
can_place_strict(bm, stake) ==
    (bm.current_exposure + stake) < bm.max_exposure /\ stake < bm.balance

\* can_place without the balance test
can_place_exposure_only(bm, stake) ==
    (bm.current_exposure + stake) <= bm.max_exposure

can_place(bm, stake) ==
    (bm.current_exposure + stake) <= bm.max_exposure /\ stake <= bm.balance

\* record_accepted that forgets to reserve the stake from the balance
bm_record_accepted_no_reserve(bm, bet_id, opp) ==
    [bm EXCEPT !.active_bets = dict_set(@, bet_id, [stake |-> opp.stake, price |-> opp.market_price]),
               !.current_exposure = @ + opp.stake]

\* record_accepted that reserves the stake without counting it as exposure
bm_record_accepted_no_exposure(bm, bet_id, opp) ==
    [bm EXCEPT !.active_bets = dict_set(@, bet_id, [stake |-> opp.stake, price |-> opp.market_price]),
               !.balance = @ - opp.stake]

\* opp is the Opportunity: only its stake and market_price are read
bm_record_accepted(bm, bet_id, opp) ==
    [bm EXCEPT !.active_bets = dict_set(@, bet_id, [stake |-> opp.stake, price |-> opp.market_price]),
               !.balance = @ - opp.stake,
               !.current_exposure = @ + opp.stake]

\* a release that keeps the stake reserved
release_exposure_never(exposure, stake) == exposure

\* a release floored at the stake instead of 0
release_exposure_floor_stake(exposure, stake) == Max(stake, exposure - stake)

\* the exposure left when a stake is released
release_exposure(exposure, stake) == Max(0, exposure - stake)

\* process_settlement that settles an unknown id as a record with stake 0
bm_process_settlement_default_record(bm, bet_id, status, payout) ==
    LET stake == IF bet_id \in DOMAIN bm.active_bets THEN bm.active_bets[bet_id].stake ELSE 0
        bal == IF status = "WON" THEN bm.balance + stake + payout ELSE bm.balance
        profit == IF status = "WON" THEN payout ELSE -stake
    IN [bm |-> [bm EXCEPT !.active_bets = dict_pop(@, bet_id),
                          !.balance = bal,
                          !.current_exposure = release_exposure(@, stake),
                          !.pnl = @ + profit,
                          !.trade_history = Append(@, [bet_id |-> bet_id, profit |-> profit, balance |-> bal])],
        ret |-> Value(profit)]

\* process_settlement that credits the payout of a won bet without returning the stake
bm_process_settlement_no_stake_back(bm, bet_id, status, payout) ==
    IF bet_id \notin DOMAIN bm.active_bets
    THEN [bm |-> bm, ret |-> None]
    ELSE LET rec == bm.active_bets[bet_id]
             stake == rec.stake
             bal == IF status = "WON" THEN bm.balance + payout ELSE bm.balance
             profit == IF status = "WON" THEN payout ELSE -stake
         IN [bm |-> [bm EXCEPT !.active_bets = dict_pop(@, bet_id),
                               !.balance = bal,
                               !.current_exposure = release_exposure(@, stake),
                               !.pnl = @ + profit,
                               !.trade_history = Append(@, [bet_id |-> bet_id, profit |-> profit, balance |-> bal])],
             ret |-> Value(profit)]

\* BetManager.process_settlement: the manager after the call and the result
bm_process_settlement(bm, bet_id, status, payout) ==
    IF bet_id \notin DOMAIN bm.active_bets
    THEN [bm |-> bm, ret |-> None]
    ELSE LET rec == bm.active_bets[bet_id]
             stake == rec.stake
             bal == IF status = "WON" THEN bm.balance + stake + payout ELSE bm.balance
             profit == IF status = "WON" THEN payout ELSE -stake
         IN [bm |-> [bm EXCEPT !.active_bets = dict_pop(@, bet_id),
                               !.balance = bal,
                               !.current_exposure = release_exposure(@, stake),
                               !.pnl = @ + profit,
                               !.trade_history = Append(@, [bet_id |-> bet_id, profit |-> profit, balance |-> bal])],
             ret |-> Value(profit)]

\* an outcome lookup without the fallback to the status field
cleared_outcome_no_fallback(cleared) == cleared.betOutcome

\* cleared.get('betOutcome') or cleared.get('status'); "" stands for a missing field
cleared_outcome(cleared) ==
    IF cleared.betOutcome # "" THEN cleared.betOutcome ELSE cleared.status

\* a derived payout that forgets to take the stake out of the return
derived_payout_gross(stake, price) == stake * price

\* payout = stake * (price - 1.0) of a won cleared order without profit field
derived_payout(stake, price) == stake * (price - 1)

\* BetManager.process_cleared_order: the manager after the call and the result.
\* float() of a value it rejects raises where the conversion stands in the code,
\* after the statements before it have run.
bm_process_cleared_order(bm, cleared) ==
    LET bet_id == cleared.betId IN
    IF bet_id \notin DOMAIN bm.active_bets
    THEN [bm |-> bm, ret |-> None]
    ELSE
    LET rec == bm.active_bets[bet_id]
        stake == rec.stake
        price == rec.price
        popped == [bm EXCEPT !.active_bets = dict_pop(@, bet_id)]
        explicit == cleared.profit.kind # "absent"
        won == cleared_outcome(cleared) = "WON"
        profit0 == IF explicit THEN cleared.profit.v
                   ELSE IF won THEN derived_payout(stake, price) ELSE -stake
        bal0 == IF explicit \/ won THEN bm.balance + stake + profit0 ELSE bm.balance
        credited == [popped EXCEPT !.balance = bal0]
        commission == IF cleared.commissionPaid.kind = "num" THEN cleared.commissionPaid.v ELSE 0
        bal1 == IF commission # 0 THEN bal0 - commission ELSE bal0
        profit == IF commission # 0 THEN profit0 - commission ELSE profit0
    IN
    IF cleared.profit.kind = "bad"
    THEN [bm |-> popped, ret |-> Raise]
    ELSE IF cleared.commissionPaid.kind = "bad"
    THEN [bm |-> credited, ret |-> Raise]
    ELSE [bm |-> [popped EXCEPT !.balance = bal1,
                                !.current_exposure = release_exposure(@, stake),
                                !.pnl = @ + profit,
                                !.trade_history = Append(@, [bet_id |-> bet_id, profit |-> profit, balance |-> bal1])],
          ret |-> Value(profit)]

(***************************************************************************)
(* Reconciliation against the cleared-order feed.                          *)
(***************************************************************************)
Range(f) == {f[i] : i \in DOMAIN f}

\* load_state of a missing or unreadable file
EmptyState == [last_cleared_timestamp |-> NoDate, processed_bet_ids |-> << >>]

\* JSON values: null and strings
JsonNull == [json |-> "null", v |-> NoDate]
JsonString(x) == [json |-> "string", v |-> x]

\* json.dump of a state dict: None becomes null, a text a string, the list an array
json_dump(st) ==
    [last_cleared_timestamp |-> IF st.last_cleared_timestamp.kind = "none" THEN JsonNull
                                ELSE JsonString(st.last_cleared_timestamp),
     processed_bet_ids |-> [i \in DOMAIN st.processed_bet_ids |->
                              JsonString(st.processed_bet_ids[i])]]

\* json.load of the text json_dump wrote
json_load(doc) ==
    [last_cleared_timestamp |-> IF doc.last_cleared_timestamp.json = "null" THEN NoDate
                                ELSE doc.last_cleared_timestamp.v,
     processed_bet_ids |-> [i \in DOMAIN doc.processed_bet_ids |->
                              doc.processed_bet_ids[i].v]]

\* the state file: missing, or holding a JSON document
NoFile == [exists |-> FALSE, doc |-> json_dump(EmptyState)]

\* save_state(path, state)
save_state(st) == [exists |-> TRUE, doc |-> json_dump(st)]

\* load_state(path)
load_state(file) == IF ~file.exists THEN EmptyState ELSE json_load(file.doc)

\* processed_list[-max_processed:]
LastN(list, n) == SubSeq(list, Len(list) - n + 1, Len(list))

\* a trim that keeps the oldest entries: processed_list[:max_processed]
trim_processed_oldest(processed_list, max_processed) ==
    IF max_processed > 0 /\ Len(processed_list) > max_processed
    THEN SubSeq(processed_list, 1, max_processed)
    ELSE processed_list

\* trim processed_list to max_processed if > 0
trim_processed(processed_list, max_processed) ==
    IF max_processed > 0 /\ Len(processed_list) > max_processed
    THEN LastN(processed_list, max_processed)
    ELSE processed_list

\* the CSV row of a cleared order (without the raw column)
csv_row(c) ==
    [betId |-> c.betId, settledDate |-> c.settledDate, betOutcome |-> cleared_outcome(c),
     profit |-> c.profit, commission |-> c.commissionPaid]

\* a pass that marks the cleared order processed without handing it to the ledger
reconcile_step_marks_only(acc, c, with_csv) ==
    IF c.betId \in acc.processed_set
    THEN acc
    ELSE [acc EXCEPT !.processed_list = Append(@, c.betId),
                     !.processed_set = @ \cup {c.betId}]

\* one pass of the loop over the cleared orders; acc holds the local variables
reconcile_step(acc, c, with_csv) ==
    IF acc.raised \/ c.betId \in acc.processed_set
    THEN acc
    ELSE LET r == bm_process_cleared_order(acc.bm, c)
         IN IF r.ret = Raise
            THEN [acc EXCEPT !.bm = r.bm, !.raised = TRUE,
                             !.calls = Append(@, [bet_id |-> c.betId, ret |-> r.ret,
                                                  settled |-> c.settledDate])]
            ELSE [acc EXCEPT !.bm = r.bm,
                             !.calls = Append(@, [bet_id |-> c.betId, ret |-> r.ret,
                                                  settled |-> c.settledDate]),
                             !.processed_list = Append(@, c.betId),
                             !.processed_set = @ \cup {c.betId},
                             !.csv = IF with_csv THEN Append(@, csv_row(c)) ELSE @,
                             !.max_ts = IF /\ c.settledDate.kind # "none"
                                           /\ settled_utc(rstrip_Z(c.settledDate)) # 0
                                           /\ (@ = 0 \/ settled_utc(rstrip_Z(c.settledDate)) > @)
                                        THEN settled_utc(rstrip_Z(c.settledDate)) ELSE @]

RECURSIVE reconcile_loop(_, _, _)
reconcile_loop(acc, cleared, with_csv) ==
    IF cleared = << >> THEN acc
    ELSE reconcile_loop(reconcile_step(acc, Head(cleared), with_csv), Tail(cleared), with_csv)

\* a reconciliation that saves the state in its finally clause, also after an exception
reconcile_save_in_finally(st, file, acc, max_processed) ==
    LET st1 == [last_cleared_timestamp |-> IF acc.max_ts # 0 THEN isoformat(acc.max_ts)
                                           ELSE st.last_cleared_timestamp,
                processed_bet_ids |-> trim_processed(acc.processed_list, max_processed)]
    IN [bm |-> acc.bm, state |-> st1, file |-> save_state(st1), csv |-> acc.csv,
        calls |-> acc.calls, ret |-> IF acc.raised THEN Raise ELSE None]

\* the statements after the loop over the cleared orders: trim, timestamp, save.
\* An exception of the loop leaves through the finally clause and nothing is saved;
\* a non-empty processed_bet_ids list of the caller is the list the loop appended to.
reconcile_save(st, file, acc, max_processed) ==
    IF acc.raised
    THEN [bm |-> acc.bm,
          state |-> IF st.processed_bet_ids # << >>
                    THEN [st EXCEPT !.processed_bet_ids = acc.processed_list] ELSE st,
          file |-> file, csv |-> acc.csv, calls |-> acc.calls, ret |-> Raise]
    ELSE LET st1 == [last_cleared_timestamp |-> IF acc.max_ts # 0 THEN isoformat(acc.max_ts)
                                                ELSE st.last_cleared_timestamp,
                     processed_bet_ids |-> trim_processed(acc.processed_list, max_processed)]
         IN [bm |-> acc.bm, state |-> st1, file |-> save_state(st1), csv |-> acc.csv,
             calls |-> acc.calls, ret |-> None]

\* reconcile_cleared_orders: answer is what list_cleared_orders gave (it may raise);
\* the result holds the manager, the caller's state dict, the file and the CSV after
\* the call.
reconcile(bm, st, file, csv, answer, max_processed, with_csv) ==
    IF answer.raises
    THEN [bm |-> bm, state |-> st, file |-> file, csv |-> csv, calls |-> << >>, ret |-> Raise]
    ELSE reconcile_save(st, file,
             reconcile_loop([bm |-> bm, processed_list |-> st.processed_bet_ids,
                             processed_set |-> Range(st.processed_bet_ids), max_ts |-> 0,
                             csv |-> csv, calls |-> << >>, raised |-> FALSE],
                            answer.cleared, with_csv),
             max_processed)

(***************************************************************************)
(* Operator gating.  Tokens and digests are names: "h1" is the SHA-256     *)
(* digest of the token "t1", "h2" that of "t2"; "" is a missing value.     *)
(***************************************************************************)
sha256_hex(token) ==
    IF token = "t1" THEN "h1" ELSE IF token = "t2" THEN "h2" ELSE "h0"

is_operator_enabled(cfg) ==
    IF cfg.operator_token_hash = "" THEN FALSE
    ELSE IF cfg.operator_token = "" THEN FALSE
    ELSE sha256_hex(cfg.operator_token) = cfg.operator_token_hash

\* is_live_allowed without the test of simulate
is_live_allowed_ignoring_simulate(cfg) ==
    IF ~cfg.live_enabled THEN FALSE
    ELSE is_operator_enabled(cfg)

is_live_allowed(cfg) ==
    IF cfg.simulate THEN FALSE
    ELSE IF ~cfg.live_enabled THEN FALSE
    ELSE is_operator_enabled(cfg)

(***************************************************************************)
(* One iteration of the polling loop of main.  A selection of the snapshot *)
(* carries what the engine and the gateway answer for it: whether evaluate *)
(* finds it qualifying, the stake size_stake gives, and the response to an *)
(* order submitted for it.                                                 *)
(***************************************************************************)
PocketPair == "Pocket Pair In Any Hand"
NaturalWin == "Natural Win"

\* the response handling recording every ACCEPTED response, one without betId under
\* an id made up locally
handle_response_any_accepted(acc, sel) ==
    IF sel.resp.status = "ACCEPTED"
    THEN [acc EXCEPT !.bm = bm_record_accepted(@, IF sel.resp.betId # "" THEN sel.resp.betId
                                                  ELSE "b1",
                                  [stake |-> sel.stake, market_price |-> sel.price]),
                     !.calls = Append(@, [op |-> "record_accepted",
                                          bet_id |-> IF sel.resp.betId # "" THEN sel.resp.betId
                                                     ELSE "b1",
                                          ret |-> None])]
    ELSE acc

\* the response handling: record the bet when the status is ACCEPTED and a betId came
handle_response(acc, sel) ==
    IF sel.resp.status = "ACCEPTED" /\ sel.resp.betId # ""
    THEN [acc EXCEPT !.bm = bm_record_accepted(@, sel.resp.betId,
                                  [stake |-> sel.stake, market_price |-> sel.price]),
                     !.calls = Append(@, [op |-> "record_accepted", bet_id |-> sel.resp.betId,
                                          ret |-> None])]
    ELSE acc

\* executor.place_bet through the api client of the session (the simulated client
\* exactly when config simulate is set), then the response handling; an exception
\* of the submission is logged
place_bet(acc, cfg, sel) ==
    LET order == [client |-> IF cfg.simulate THEN "simulated" ELSE "live",
                  live_allowed |-> is_live_allowed(cfg),
                  name |-> sel.name, stake |-> sel.stake]
        sent == [acc EXCEPT !.submitted = Append(@, order)]
    IN IF sel.resp.status = "raise" THEN sent ELSE handle_response(sent, sel)

\* the body of the loop over the selections without the can_place test
evaluate_selection_unguarded(acc, cfg, sel) ==
    IF sel.status # "IN_PLAY" THEN acc
    ELSE IF sel.name \notin {PocketPair, NaturalWin} \/ sel.price = 0 THEN acc
    ELSE IF sel.raises THEN [acc EXCEPT !.error = TRUE]
    ELSE IF ~sel.qualifies THEN acc
    ELSE IF cfg.simulate_place_bets THEN place_bet(acc, cfg, sel)
    ELSE IF sel.name = PocketPair /\ is_live_allowed(cfg) THEN place_bet(acc, cfg, sel)
    ELSE acc

\* the body of the loop over the selections
evaluate_selection(acc, cfg, sel) ==
    IF sel.status # "IN_PLAY" THEN acc
    ELSE IF sel.name \notin {PocketPair, NaturalWin} \/ sel.price = 0 THEN acc
    ELSE IF sel.raises THEN [acc EXCEPT !.error = TRUE]
    ELSE IF ~sel.qualifies THEN acc
    ELSE IF ~can_place(acc.bm, sel.stake) THEN acc
    ELSE IF cfg.simulate_place_bets THEN place_bet(acc, cfg, sel)
    ELSE IF sel.name = PocketPair /\ is_live_allowed(cfg) THEN place_bet(acc, cfg, sel)
    ELSE acc

\* history: what the loop body did with one selection, read off the iteration's
\* state before and after it
Qualifying(sel) ==
    /\ sel.status = "IN_PLAY"
    /\ sel.name \in {PocketPair, NaturalWin}
    /\ sel.price # 0
    /\ ~sel.raises
    /\ sel.qualifies

NoResponse == [status |-> "", betId |-> ""]

note_decision(before, after, sel) ==
    [after EXCEPT !.decisions =
        Append(@, [qualifying |-> Qualifying(sel),
                   admitted |-> can_place(before.bm, sel.stake),
                   submitted |-> Len(after.submitted) > Len(before.submitted),
                   response |-> IF Len(after.submitted) > Len(before.submitted)
                                THEN sel.resp ELSE NoResponse,
                   recorded |-> Len(after.calls) > Len(before.calls),
                   ledger_changed |-> after.bm # before.bm])]

\* for sel in selections; an exception of the body ends the for loop
RECURSIVE evaluate_selections(_, _, _)
evaluate_selections(acc, cfg, sels) ==
    IF sels = << >> \/ acc.error THEN acc
    ELSE evaluate_selections(
             note_decision(acc, evaluate_selection(acc, cfg, Head(sels)), Head(sels)),
             cfg, Tail(sels))

\* the body of the loop over the settlements of the snapshot; a payout float()
\* rejects raises into the handler of the iteration
apply_settlement(acc, s) ==
    IF acc.error THEN acc
    ELSE IF s.payout.kind = "bad" THEN [acc EXCEPT !.error = TRUE]
    ELSE IF s.bet_id = "" THEN acc
    ELSE LET r == bm_process_settlement(acc.bm, s.bet_id, s.status, s.payout.v)
         IN [acc EXCEPT !.bm = r.bm,
                        !.calls = Append(@, [op |-> "process_settlement", bet_id |-> s.bet_id,
                                             ret |-> r.ret])]

RECURSIVE apply_settlements(_, _)
apply_settlements(acc, ss) ==
    IF ss = << >> THEN acc
    ELSE apply_settlements(apply_settlement(acc, Head(ss)), Tail(ss))

\* what the iteration keeps of a reconcile_cleared_orders call
after_reconcile(acc, r) ==
    [acc EXCEPT !.bm = r.bm, !.state = r.state, !.file = r.file, !.csv = r.csv,
                !.calls = @ \o [i \in DOMAIN r.calls |->
                                   [op |-> "process_cleared_order",
                                    bet_id |-> r.calls[i].bet_id,
                                    ret |-> r.calls[i].ret]],
                !.reconciled = TRUE,
                !.reconcile_ret = r.ret]

\* the periodic reconciliation: the state is loaded from the file, and an exception
\* of reconcile_cleared_orders is logged
reconcile_if_due(acc, cfg, with_csv, timer_set, due, answer) ==
    IF acc.error \/ ~cfg.use_exchange_api \/ (timer_set /\ ~due) THEN acc
    ELSE after_reconcile(acc, reconcile(acc.bm, load_state(acc.file), acc.file, acc.csv, answer,
                                        DEFAULT_MAX_PROCESSED, with_csv))

\* the loop over the selections, which an exception raised before it skips
evaluate_opportunities(acc, cfg, sels) ==
    IF acc.error THEN acc ELSE evaluate_selections(acc, cfg, sels)

\* the local state of an iteration that has done nothing yet
iteration_start(bm, st, file, csv) ==
    [bm |-> bm, state |-> st, file |-> file, csv |-> csv, calls |-> << >>,
     submitted |-> << >>, decisions |-> << >>, error |-> FALSE, reconciled |-> FALSE,
     reconcile_ret |-> None]

\* get_snapshot answers, and parse_shoe_state and parse_market_selections are given
\* an element each; both raise on None
snapshot_parses_without_shoe(snap) == snap.fetch = "ok" /\ snap.has_selections

snapshot_parses(snap) == snap.fetch = "ok" /\ snap.has_shoe /\ snap.has_selections

\* the try block of one iteration: snapshot, settlements, reconciliation, selections
main_iteration(bm, st, file, csv, cfg, with_csv, timer_set, snap, due, answer) ==
    IF ~snapshot_parses(snap)
    THEN [iteration_start(bm, st, file, csv) EXCEPT !.error = TRUE]
    ELSE evaluate_opportunities(
             reconcile_if_due(
                 apply_settlements(iteration_start(bm, st, file, csv), snap.settlements),
                 cfg, with_csv, timer_set, due, answer),
             cfg, snap.selections)

\* what a call does to the history of its bet id
history_step(h, call) ==
    IF call.op = "record_accepted"
    THEN [h EXCEPT !.life[call.bet_id] = "active", !.booked[call.bet_id] = 0]
    ELSE [h EXCEPT !.life[call.bet_id] =
                       IF @ # "active" THEN @
                       ELSE IF call.ret = Raise THEN "failed"
                       ELSE IF call.op = "process_settlement" THEN "settled" ELSE "cleared",
                   !.booked[call.bet_id] = @ + (IF call.ret.kind = "value" THEN 1 ELSE 0)]

RECURSIVE history_after(_, _)
history_after(h, calls) ==
    IF calls = << >> THEN h ELSE history_after(history_step(h, Head(calls)), Tail(calls))

(***************************************************************************)
(* api_client.py: ExchangeAPIClient.json_rpc.  One attempt is one POST and *)
(* what the loop body does with its outcome; the sleeps between attempts   *)
(* take time and change nothing.                                           *)
(***************************************************************************)
ATTEMPTS == 3
LAST_RETRY == 2

\* what a POST can end as: an exception of the transport, or a response
NetworkException == [kind |-> "exception", status |-> 0, body |-> ""]
Response(status, body) == [kind |-> "response", status |-> status, body |-> body]

\* the bodies of responses: JSON texts and a text that is no JSON
JsonBodies == {"{r1}", "{r2}"}
Bodies == JsonBodies \cup {"<html>"}

\* resp.json(): the document of a JSON text, ValueError for any other
resp_json(body) ==
    IF body = "{r1}" THEN Value("r1")
    ELSE IF body = "{r2}" THEN Value("r2")
    ELSE Raise

\* requests.Response.raise_for_status raises HTTPError for the statuses 400 to 599
raise_for_status(status) == 400 <= status /\ status < 600

\* no status is answered by another attempt
is_retryable_status_none(status) == FALSE

\* every error status is answered by another attempt
is_retryable_status_any_error(status) == status >= 400

\* resp.status_code in (429, 503)
is_retryable_status(status) == status \in {429, 503}

NoCall == [phase |-> "idle", retry_on_json_error |-> FALSE, attempt |-> 0, posts |-> << >>,
           ret |-> None, error |-> ""]

\* json_rpc entered: the payload is built and the first attempt is about to POST
rpc_start(retry_on_json_error) ==
    [NoCall EXCEPT !.phase = "running", !.retry_on_json_error = retry_on_json_error]

rpc_return(c, value) == [c EXCEPT !.phase = "returned", !.ret = value]
rpc_raise(c, error) == [c EXCEPT !.phase = "raised", !.error = error]

\* the end of a pass of the for loop that neither returned nor raised: the next
\* attempt, or after the last one resp.raise_for_status() on the last response
rpc_next_attempt(c, resp) ==
    IF c.attempt + 1 < ATTEMPTS THEN [c EXCEPT !.attempt = @ + 1]
    ELSE IF raise_for_status(resp.status) THEN rpc_raise(c, "HTTPError")
    ELSE rpc_return(c, None)

\* the body of the for loop for the attempt whose POST ended as resp, which c.posts
\* already holds
rpc_attempt(c, resp) ==
    IF resp.kind = "exception"
    THEN IF c.attempt < LAST_RETRY THEN rpc_next_attempt(c, resp)
         ELSE rpc_raise(c, "NetworkError")
    ELSE IF resp.status = 200
    THEN IF resp_json(resp.body) # Raise THEN rpc_return(c, resp_json(resp.body))
         ELSE IF c.retry_on_json_error /\ c.attempt < LAST_RETRY
         THEN rpc_next_attempt(c, resp)
         ELSE rpc_raise(c, "ValueError")
    ELSE IF is_retryable_status(resp.status) THEN rpc_next_attempt(c, resp)
    ELSE IF raise_for_status(resp.status) THEN rpc_raise(c, "HTTPError")
    ELSE rpc_next_attempt(c, resp)

(***************************************************************************)
(* api_client.py: SimulatedAPIClient, the shoe it keeps and get_snapshot.  *)
(***************************************************************************)
FULL_SHOE == 416
DECK == 52
DEFAULT_DECREMENT == 4
SIM_RANKS == 13
DEFAULT_SETTLE_DELAY == 2

\* int(round(x)) of Python for x = n / d >= 0: to the nearest integer, a half to the
\* even one
round_half_even(n, d) ==
    IF 2 * (n % d) > d THEN (n \div d) + 1
    ELSE IF 2 * (n % d) < d THEN n \div d
    ELSE IF (n \div d) % 2 = 0 THEN n \div d
    ELSE (n \div d) + 1

\* {r: max(0, int(round(4 * decks))) for r in range(1, 14)} with decks = cards / 52.0
full_counts(cards) == [r \in 1..SIM_RANKS |-> Max(0, round_half_even(4 * cards, DECK))]

\* SimulatedAPIClient(start_cards_remaining, decrement, reset_after); a reset_after of
\* None is written 0, which get_snapshot treats alike
SimulatedAPIClient_init(start_cards_remaining, decrement, reset_after, settle_delay) ==
    [start_cards_remaining |-> start_cards_remaining,
     cards_remaining |-> start_cards_remaining,
     decrement |-> decrement,
     reset_after |-> reset_after,
     iteration |-> 0,
     settle_delay |-> settle_delay,
     card_counts |-> full_counts(start_cards_remaining),
     pending_bets |-> << >>,
     next_bet_id |-> 1]

\* the state of the while loop that deals to_remove cards: the counts, the cards still to
\* remove, the rank idx points at, and the ranks found empty in a row
Dealing(counts, to_remove, r, attempts) ==
    [counts |-> counts, to_remove |-> to_remove, r |-> r, attempts |-> attempts]

dealing_continues(d) == d.to_remove > 0 /\ d.attempts < SIM_RANKS

\* one pass of the loop body: a card of the rank if one is left, else one more attempt
deal_one(d) ==
    IF d.counts[d.r] > 0
    THEN Dealing([d.counts EXCEPT ![d.r] = @ - 1], d.to_remove - 1, (d.r % SIM_RANKS) + 1, 0)
    ELSE Dealing(d.counts, d.to_remove, (d.r % SIM_RANKS) + 1, d.attempts + 1)

\* at most k passes of the loop
RECURSIVE deal_passes(_, _)
deal_passes(d, k) ==
    IF k = 0 \/ ~dealing_continues(d) THEN d ELSE deal_passes(deal_one(d), k - 1)

\* the whole loop, taken one round of the ranks at a time
RECURSIVE deal_loop(_)
deal_loop(d) ==
    IF ~dealing_continues(d) THEN d.counts ELSE deal_loop(deal_passes(d, SIM_RANKS))

deal_round_robin(counts, to_remove, r, attempts) ==
    deal_loop(Dealing(counts, to_remove, r, attempts))

\* self.cards_remaining - self.decrement without the floor of 0
remaining_after_unclamped(cards_remaining, decrement) == cards_remaining - decrement

\* max(0, self.cards_remaining - self.decrement)
remaining_after(cards_remaining, decrement) == Max(0, cards_remaining - decrement)

\* Python's a % b for b # 0: the remainder has the sign of b
py_mod(a, b) == IF b > 0 THEN a % b ELSE -((-a) % (-b))

\* a test of the delay that lets a bet wait one snapshot less
is_due_one_early(iteration, placed_iteration, settle_delay) ==
    iteration - placed_iteration >= settle_delay - 1

\* self.iteration - b['placed_iteration'] >= self.settle_delay
is_due(iteration, placed_iteration, settle_delay) ==
    iteration - placed_iteration >= settle_delay

\* _generate_snapshot: the pending bets due for settlement, which it deletes
to_settle(s) ==
    {b \in DOMAIN s.pending_bets :
        is_due(s.iteration, s.pending_bets[b].placed_iteration, s.settle_delay)}

\* _generate_snapshot: the settlement entries of the snapshot; a bet of `won` is one
\* for which random.random() < true_prob came out true.  Money is whole units.
settlements_xml(s, won) ==
    {[betId |-> b, selectionId |-> s.pending_bets[b].selectionId,
      status |-> IF b \in won THEN "WON" ELSE "LOST",
      payout |-> IF b \in won
                 THEN s.pending_bets[b].stake * (s.pending_bets[b].price - 1) ELSE 0] :
        b \in to_settle(s)}

\* get_snapshot: the simulator after the call; the snapshot it returns shows
\* cards_remaining and card_counts of this state, and _generate_snapshot has deleted
\* the bets it settled before iteration is advanced
sim_get_snapshot(s) ==
    IF s.reset_after # 0 /\ s.iteration > 0 /\ py_mod(s.iteration, s.reset_after) = 0
    THEN [s EXCEPT !.cards_remaining = s.start_cards_remaining,
                   !.card_counts = full_counts(s.start_cards_remaining),
                   !.pending_bets = [b \in (DOMAIN @) \ to_settle(s) |-> @[b]],
                   !.iteration = @ + 1]
    ELSE IF s.cards_remaining > 0
    THEN [s EXCEPT !.card_counts = deal_round_robin(@, s.decrement,
                                                    (s.iteration % SIM_RANKS) + 1, 0),
                   !.cards_remaining = remaining_after(@, s.decrement),
                   !.pending_bets = [b \in (DOMAIN @) \ to_settle(s) |-> @[b]],
                   !.iteration = @ + 1]
    ELSE [s EXCEPT !.pending_bets = [b \in (DOMAIN @) \ to_settle(s) |-> @[b]],
                   !.iteration = @ + 1]

\* post_bet_order: the bet id is the text of the counter; the true_prob kept with the
\* bet only weights the random outcome of its settlement
sim_post_bet_order(s, price, stake, selection_id) ==
    [s EXCEPT !.pending_bets = dict_set(@, ToString(s.next_bet_id),
                                        [betId |-> ToString(s.next_bet_id),
                                         selectionId |-> selection_id,
                                         price |-> price, stake |-> stake,
                                         placed_iteration |-> s.iteration,
                                         status |-> "PENDING"]),
              !.next_bet_id = @ + 1]

TypeOK ==
    /\ balance \in Int
    /\ max_exposure \in Int
    /\ current_exposure \in Int
    /\ DOMAIN active_bets \subseteq BetIds
    /\ pnl \in Int
    /\ ncalls \in 0..MaxCalls
    /\ life \in [BetIds -> {"new", "active", "settled", "cleared", "failed"}]
    /\ booked \in [BetIds -> Nat]
    /\ disciplined \in BOOLEAN
    /\ state.last_cleared_timestamp \in {NoDate} \cup {isoformat(n) : n \in 1..MaxDate}
    /\ load_state(state_file).last_cleared_timestamp \in {NoDate} \cup {isoformat(n) : n \in 1..MaxDate}
    /\ Range(state.processed_bet_ids) \subseteq BetIds
    /\ DOMAIN exchange \subseteq BetIds
    /\ csv_path \in BOOLEAN
    /\ deliveries \in [BetIds -> Nat]
    /\ pc \in {"running", "returned", "crashed"}
    /\ fetches \in Nat

\* a configuration that runs no polling loop
NoConfig ==
    [simulate |-> TRUE, simulate_place_bets |-> FALSE, live_enabled |-> FALSE,
     operator_token_hash |-> "", operator_token |-> "", use_exchange_api |-> FALSE,
     iterations |-> 0]

\* everything but the start balance, the CSV switch and the configuration
InitRest ==
    /\ max_exposure = StartMaxExposure
    /\ current_exposure = 0
    /\ active_bets = << >>
    /\ pnl = 0
    /\ trade_history = << >>
    /\ last = [op |-> "init", bet_id |-> "", ret |-> None]
    /\ ncalls = 0
    /\ life = [b \in BetIds |-> "new"]
    /\ booked = [b \in BetIds |-> 0]
    /\ disciplined = TRUE
    /\ state = EmptyState
    /\ state_file = NoFile
    /\ csv_rows = << >>
    /\ exchange = << >>
    /\ deliveries = [b \in BetIds |-> 0]
    /\ loops = 0
    /\ last_cleared_poll = FALSE
    /\ submissions = << >>
    /\ pc = "running"
    /\ fetches = 0
    /\ rpc = NoCall
    /\ sim = SimulatedAPIClient_init(FULL_SHOE, DEFAULT_DECREMENT, 0, DEFAULT_SETTLE_DELAY)
    /\ reports = << >>

\* BetManager(balance, max_exposure) of a new session
Init ==
    /\ balance \in {LowBalance, StartBalance}
    /\ csv_path = FALSE
    /\ config = NoConfig
    /\ InitRest

SetBM(bm) ==
    /\ balance' = bm.balance
    /\ max_exposure' = bm.max_exposure
    /\ current_exposure' = bm.current_exposure
    /\ active_bets' = bm.active_bets
    /\ pnl' = bm.pnl
    /\ trade_history' = bm.trade_history

\* history of one settlement call on bet_id: how it ended and whether it booked an entry
Settled(bet_id, how, ret, before, after) ==
    /\ life' = [life EXCEPT ![bet_id] =
                    IF @ # "active" THEN @
                    ELSE IF ret = Raise THEN "failed" ELSE how]
    /\ booked' = [booked EXCEPT ![bet_id] = @ + (Len(after.trade_history) - Len(before.trade_history))]

record_accepted(bet_id, stake, price) ==
    /\ ncalls < MaxCalls
    /\ SetBM(bm_record_accepted(BM, bet_id, [stake |-> stake, market_price |-> price]))
    /\ last' = [op |-> "record_accepted", bet_id |-> bet_id, stake |-> stake, price |-> price,
                ret |-> None]
    /\ ncalls' = ncalls + 1
    /\ life' = [life EXCEPT ![bet_id] = "active"]
    /\ booked' = [booked EXCEPT ![bet_id] = 0]
    /\ disciplined' = (disciplined /\ can_place(BM, stake))
    /\ deliveries' = [deliveries EXCEPT ![bet_id] = 0]
    /\ UNCHANGED <<state, state_file, csv_rows, exchange, csv_path, loop, clients>>

process_settlement(bet_id, status, payout) ==
    /\ ncalls < MaxCalls
    /\ LET r == bm_process_settlement(BM, bet_id, status, payout)
       IN /\ SetBM(r.bm)
          /\ last' = [op |-> "process_settlement", bet_id |-> bet_id, status |-> status,
                      payout |-> payout, ret |-> r.ret]
          /\ Settled(bet_id, "settled", r.ret, BM, r.bm)
    /\ ncalls' = ncalls + 1
    /\ disciplined' = (disciplined /\ payout >= 0)
    /\ UNCHANGED <<recon, loop, clients>>

process_cleared_order(cleared) ==
    /\ ncalls < MaxCalls
    /\ LET r == bm_process_cleared_order(BM, cleared)
       IN /\ SetBM(r.bm)
          /\ last' = [op |-> "process_cleared_order", bet_id |-> cleared.betId,
                      cleared |-> cleared, ret |-> r.ret]
          /\ Settled(cleared.betId, "cleared", r.ret, BM, r.bm)
    /\ ncalls' = ncalls + 1
    /\ disciplined' = FALSE
    /\ UNCHANGED <<recon, loop, clients>>

\* the exchange settles a bet: its cleared order is in the feed from now on
exchange_settles(c) ==
    /\ c.betId \notin DOMAIN exchange
    /\ exchange' = dict_set(exchange, c.betId, c)
    /\ UNCHANGED <<ledger, last, ncalls, history, state, state_file, csv_rows, csv_path, deliveries,
                   loop, clients>>

\* the answers list_cleared_orders can give: an exception, or any list (the query
\* windows of successive calls may overlap) of cleared orders the exchange holds
FeedAnswers ==
    {[raises |-> TRUE, cleared |-> << >>]} \cup
    {[raises |-> FALSE, cleared |-> [i \in DOMAIN ids |-> exchange[ids[i]]]] :
        ids \in UNION {[1..k -> DOMAIN exchange] : k \in 0..MaxFeed}}

\* the ids process_cleared_order was called for and how each call ended
CalledFor(calls, b) == {i \in DOMAIN calls : calls[i].bet_id = b}

reconcile_cleared_orders(answer, max_processed) ==
    /\ ncalls < MaxCalls
    /\ LET r == reconcile(BM, state, state_file, csv_rows, answer, max_processed, csv_path)
       IN /\ SetBM(r.bm)
          /\ state' = r.state
          /\ state_file' = r.file
          /\ csv_rows' = r.csv
          /\ last' = [op |-> "reconcile_cleared_orders", bet_id |-> "",
                      max_processed |-> max_processed, calls |-> r.calls, ret |-> r.ret]
          /\ life' = [b \in BetIds |->
                         IF life[b] = "active" /\ CalledFor(r.calls, b) # {}
                         THEN (IF \E i \in CalledFor(r.calls, b) : r.calls[i].ret = Raise
                               THEN "failed" ELSE "cleared")
                         ELSE life[b]]
          /\ booked' = [b \in BetIds |->
                           booked[b] + Cardinality({i \in DOMAIN r.bm.trade_history :
                                                      /\ i > Len(trade_history)
                                                      /\ r.bm.trade_history[i].bet_id = b})]
          /\ deliveries' = [b \in BetIds |->
                               IF r.ret = None /\ \E i \in DOMAIN answer.cleared : answer.cleared[i].betId = b
                               THEN deliveries[b] + 1 ELSE deliveries[b]]
    /\ ncalls' = ncalls + 1
    /\ disciplined' = FALSE
    /\ UNCHANGED <<exchange, csv_path, loop, clients>>

Next ==
    \/ \E b \in BetIds, s \in Stakes, p \in Prices : record_accepted(b, s, p)
    \/ \E b \in BetIds, st \in Statuses, p \in Payouts : process_settlement(b, st, p)
    \/ \E c \in ClearedOrders : process_cleared_order(c)

Spec == Init /\ [][Next]_vars

(***************************************************************************)
(* The ledger when every bet has its own id and only active bets are       *)
(* settled, each by either channel.                                        *)
(***************************************************************************)
SettleOrders ==
    {c \in ClearedOrders :
        /\ c.status = ""
        /\ c.profit \in {Absent, Num(MaxProfit)}
        /\ c.commissionPaid \in {Absent, Num(MaxCommission)}}

NextSettle ==
    \/ \E b \in BetIds, s \in Stakes, p \in Prices :
          life[b] = "new" /\ record_accepted(b, s, p)
    \/ \E b \in DOMAIN active_bets, st \in Statuses, p \in Payouts :
          process_settlement(b, st, p)
    \/ \E c \in SettleOrders :
          c.betId \in DOMAIN active_bets /\ process_cleared_order(c)

SpecSettle == Init /\ [][NextSettle]_vars

(***************************************************************************)
(* The ledger with the can_place query among its calls.                    *)
(***************************************************************************)
\* the call bm.can_place(stake): it assigns no field of the manager
can_place_query(stake) ==
    /\ ncalls < MaxCalls
    /\ last' = [op |-> "can_place", bet_id |-> "", stake |-> stake,
                ret |-> Bool(can_place(BM, stake))]
    /\ ncalls' = ncalls + 1
    /\ UNCHANGED <<ledger, history, recon, loop, clients>>

QueryStakes == {0, 1, MaxStake, StartMaxExposure, StartMaxExposure + 1}

NextQuery ==
    \/ \E b \in BetIds, k \in {1, MaxStake} : record_accepted(b, k, 2)
    \/ \E b \in BetIds, st \in Statuses : process_settlement(b, st, MaxPayout)
    \/ \E k \in QueryStakes : can_place_query(k)

SpecQuery == Init /\ [][NextQuery]_vars

(***************************************************************************)
(* The ledger when the feed may also hand over a cleared order whose       *)
(* profit or commissionPaid is not a number.                               *)
(***************************************************************************)
NextMalformed ==
    \/ Next
    \/ \E c \in MalformedOrders : process_cleared_order(c)

SpecMalformed == Init /\ [][NextMalformed]_vars

(***************************************************************************)
(* The ledger reconciled against the exchange: the exchange gives every    *)
(* bet its own id, and settles a bet after it was accepted.                *)
(***************************************************************************)
InitReconcile ==
    /\ balance = StartBalance
    /\ csv_path \in BOOLEAN
    /\ config = NoConfig
    /\ InitRest

\* the orders the exchange clears here: undated, or dated the earliest or the latest
\* instant (every date in between is an order of FeedOrders under SpecFeed)
ReconcileOrders == {x \in FeedOrders : x.settledDate \in {NoDate, Utc(1), Utc(MaxDate)}}

NextReconcile ==
    \/ \E b \in BetIds, s \in {1, MaxStake} :
          life[b] = "new" /\ record_accepted(b, s, 2)
    \/ \E b \in BetIds : process_settlement(b, "WON", MaxPayout)
    \/ \E c \in ReconcileOrders : life[c.betId] # "new" /\ exchange_settles(c)
    \/ \E a \in FeedAnswers, m \in MaxProcessedValues : reconcile_cleared_orders(a, m)

SpecReconcile == InitReconcile /\ [][NextReconcile]_vars

(***************************************************************************)
(* Reconciliation against a feed that may also hold a cleared order whose  *)
(* profit float() rejects, whose settledDate gives a clock offset from     *)
(* UTC, or whose settledDate is no ISO-8601 text.                          *)
(***************************************************************************)
OddOrders ==
    {[betId |-> b, profit |-> f[1], betOutcome |-> f[2], status |-> "",
      commissionPaid |-> Absent, settledDate |-> f[3]] :
        b \in BetIds,
        f \in {<<Bad, "WON", Utc(1)>>, <<Absent, "LOST", IsoText(MaxDate, 1, FALSE)>>,
               <<Absent, "LOST", BadDate>>}}

NextFeed ==
    \/ \E b \in BetIds : life[b] = "new" /\ record_accepted(b, 1, 2)
    \/ \E c \in FeedOrders \cup OddOrders : life[c.betId] # "new" /\ exchange_settles(c)
    \/ \E a \in FeedAnswers, m \in MaxProcessedValues : reconcile_cleared_orders(a, m)

SpecFeed == InitReconcile /\ [][NextFeed]_vars

(***************************************************************************)
(* Reconciliation when the feed may hold the cleared order of an id before *)
(* the ledger records the acceptance of a bet with that id.                *)
(***************************************************************************)
NextEarly ==
    \/ \E b \in BetIds, s \in {1, MaxStake} :
          life[b] = "new" /\ record_accepted(b, s, 2)
    \/ \E c \in ReconcileOrders : exchange_settles(c)
    \/ \E a \in FeedAnswers, m \in MaxProcessedValues : reconcile_cleared_orders(a, m)

SpecEarly == InitReconcile /\ [][NextEarly]_vars

(***************************************************************************)
(* The polling loop.                                                       *)
(***************************************************************************)
Responses ==
    {[status |-> "raise", betId |-> ""], [status |-> "REJECTED", betId |-> ""],
     [status |-> "ACCEPTED", betId |-> ""], [status |-> "ACCEPTED", betId |-> "b1"]}

\* the selections of one name a snapshot can carry
SelectionsNamed(name) ==
    {[name |-> name, status |-> "LOSER", price |-> 5, raises |-> FALSE, qualifies |-> TRUE,
      stake |-> 1, resp |-> [status |-> "REJECTED", betId |-> ""]],
     [name |-> name, status |-> "IN_PLAY", price |-> 0, raises |-> FALSE, qualifies |-> TRUE,
      stake |-> 1, resp |-> [status |-> "REJECTED", betId |-> ""]],
     [name |-> name, status |-> "IN_PLAY", price |-> 5, raises |-> FALSE, qualifies |-> FALSE,
      stake |-> 1, resp |-> [status |-> "REJECTED", betId |-> ""]],
     [name |-> name, status |-> "IN_PLAY", price |-> 5, raises |-> TRUE, qualifies |-> TRUE,
      stake |-> 1, resp |-> [status |-> "ACCEPTED", betId |-> "b1"]],
     [name |-> name, status |-> "IN_PLAY", price |-> 5, raises |-> FALSE, qualifies |-> TRUE,
      stake |-> MaxStake, resp |-> [status |-> "ACCEPTED", betId |-> "b2"]]}
    \cup {[name |-> name, status |-> "IN_PLAY", price |-> 5, raises |-> FALSE,
            qualifies |-> TRUE, stake |-> 1, resp |-> r] : r \in Responses}

SnapshotSettlements ==
    {<<[bet_id |-> "", status |-> "WON", payout |-> Num(MaxPayout)]>>,
     <<[bet_id |-> "b1", status |-> "WON", payout |-> Bad]>>,
     <<[bet_id |-> "b1", status |-> "WON", payout |-> Num(MaxPayout)]>>,
     <<[bet_id |-> "b2", status |-> "LOST", payout |-> Absent]>>}

\* a selection that qualifies and whose order is accepted with a bet id
Accepted(x) ==
    x.status = "IN_PLAY" /\ x.price # 0 /\ ~x.raises /\ x.qualifies /\ x.resp.betId # ""

SnapshotSelections ==
    {<< >>} \cup {<<x>> : x \in SelectionsNamed(PocketPair) \cup SelectionsNamed(NaturalWin)}
    \cup {<<x, y>> : x \in {z \in SelectionsNamed(PocketPair) : Accepted(z)},
                     y \in {z \in SelectionsNamed(NaturalWin) : Accepted(z)}}

Snapshots ==
    {[fetch |-> "raise", has_shoe |-> FALSE, has_selections |-> FALSE,
      settlements |-> << >>, selections |-> << >>]}
    \cup {[fetch |-> "ok", has_shoe |-> FALSE, has_selections |-> TRUE,
            settlements |-> ss, selections |-> <<x>>] :
              ss \in SnapshotSettlements,
              x \in {z \in SelectionsNamed(PocketPair) : Accepted(z) /\ z.stake = 1}}
    \cup {[fetch |-> "ok", has_shoe |-> TRUE, has_selections |-> FALSE,
            settlements |-> ss, selections |-> << >>] : ss \in SnapshotSettlements}
    \cup {[fetch |-> "ok", has_shoe |-> TRUE, has_selections |-> TRUE,
            settlements |-> << >>, selections |-> sels] : sels \in SnapshotSelections}
    \cup {[fetch |-> "ok", has_shoe |-> TRUE, has_selections |-> TRUE,
            settlements |-> ss, selections |-> sels] :
              ss \in SnapshotSettlements,
              sels \in {<< >>} \cup {<<x>> : x \in {z \in SelectionsNamed(PocketPair) :
                                                       Accepted(z) /\ z.stake = MaxStake}}}

\* what list_cleared_orders answers inside the loop: APIClient and SimulatedAPIClient
\* define no such method, so the call raises; a client that defines it answers a list
LoopAnswers ==
    {[raises |-> TRUE, cleared |-> << >>], [raises |-> FALSE, cleared |-> << >>]}
    \cup {[raises |-> FALSE, cleared |-> <<c>>] :
             c \in {x \in FeedOrders : x.betId = "b1" /\ x.settledDate = Utc(1) /\ x.betOutcome = "WON"}}

\* the operator token hash of the configuration and the token of the environment
OperatorTokens ==
    {<<"", "">>, <<"h1", "">>, <<"h1", "t1">>, <<"h1", "t2">>, <<"", "t1">>}

Configs ==
    {[simulate |-> f[1], simulate_place_bets |-> f[2], live_enabled |-> f[3],
      use_exchange_api |-> f[4], operator_token_hash |-> t[1], operator_token |-> t[2],
      iterations |-> n] : f \in [1..4 -> BOOLEAN], t \in OperatorTokens, n \in 1..MaxIterations}

\* except Exception at the end of the loop body: the error is logged and the while
\* loop goes on
after_iteration_propagates(error) == IF error THEN "crashed" ELSE "running"

after_iteration(error) == "running"

\* history: what the snapshot of an iteration held
seen(bm, snap) ==
    [fetch |-> snap.fetch, has_shoe |-> snap.has_shoe, has_selections |-> snap.has_selections,
     settles_active |-> \E i \in DOMAIN snap.settlements :
                           snap.settlements[i].bet_id \in DOMAIN bm.active_bets]

\* what an iteration that ended as r leaves behind
iteration_done(r, snap, answer) ==
    /\ SetBM(r.bm)
    /\ state' = r.state
    /\ state_file' = r.file
    /\ csv_rows' = r.csv
    /\ last' = [op |-> "poll_iteration", bet_id |-> "", calls |-> r.calls,
                error |-> r.error, ret |-> None, snapshot |-> seen(BM, snap),
                decisions |-> r.decisions, reconciled |-> r.reconciled]
    /\ pc' = after_iteration(r.error)
    /\ life' = history_after([life |-> life, booked |-> booked], r.calls).life
    /\ booked' = history_after([life |-> life, booked |-> booked], r.calls).booked
    /\ disciplined' = (disciplined /\ ~r.reconciled)
    /\ deliveries' = [b \in BetIds |->
                         IF /\ r.reconciled /\ r.reconcile_ret = None
                            /\ \E i \in DOMAIN answer.cleared : answer.cleared[i].betId = b
                         THEN deliveries[b] + 1 ELSE deliveries[b]]
    /\ last_cleared_poll' = (last_cleared_poll \/ r.reconciled)
    /\ submissions' = submissions \o r.submitted

poll_iteration(snap, due, answer) ==
    /\ pc = "running"
    /\ loops < config.iterations
    /\ fetches' = fetches + 1
    /\ iteration_done(main_iteration(BM, state, state_file, csv_rows, config, csv_path,
                                     last_cleared_poll, snap, due, answer), snap, answer)
    /\ loops' = loops + 1
    /\ UNCHANGED <<ncalls, exchange, csv_path, config, clients>>

\* the while condition fails and main returns
main_returns ==
    /\ pc = "running"
    /\ ~(loops < config.iterations)
    /\ pc' = "returned"
    /\ UNCHANGED <<ledger, history, recon, last, ncalls, config, loops, last_cleared_poll,
                   submissions, fetches, clients>>

InitLoop ==
    /\ balance = StartBalance
    /\ csv_path = FALSE
    /\ config \in Configs
    /\ InitRest

\* whether exchange_poll_cleared_seconds have passed since last_cleared_poll, which is
\* 0 until the first reconciliation; read only when use_exchange_api is set
PollDue ==
    IF ~config.use_exchange_api THEN {FALSE}
    ELSE IF ~last_cleared_poll THEN {TRUE}
    ELSE BOOLEAN

NextLoop ==
    \/ \E snap \in Snapshots, due \in PollDue :
           \E answer \in IF due THEN LoopAnswers ELSE {[raises |-> FALSE, cleared |-> << >>]} :
               poll_iteration(snap, due, answer)
    \/ main_returns

SpecLoop == InitLoop /\ [][NextLoop]_vars

(***************************************************************************)
(* Numbers of the engines: a float is modelled by the exact rational it    *)
(* stands for, n/d with d > 0, kept in lowest terms.                       *)
(***************************************************************************)
Abs(x) == IF x < 0 THEN -x ELSE x

RECURSIVE Gcd(_, _)
Gcd(a, b) == IF b = 0 THEN a ELSE Gcd(b, a % b)

\* n/d in lowest terms with a positive denominator (d # 0)
Rat(n, d) ==
    LET g == Gcd(Abs(n), Abs(d))
    IN IF d > 0 THEN [n |-> n \div g, d |-> d \div g]
       ELSE [n |-> (-n) \div g, d |-> (-d) \div g]

Whole(n) == [n |-> n, d |-> 1]
RLe(a, b) == a.n * b.d <= b.n * a.d
RLt(a, b) == a.n * b.d < b.n * a.d
RAdd(a, b) == Rat(a.n * b.d + b.n * a.d, a.d * b.d)
RSub(a, b) == Rat(a.n * b.d - b.n * a.d, a.d * b.d)
RMul(a, b) == Rat(a.n * b.n, a.d * b.d)
\* a / b for b # 0
RDiv(a, b) == Rat(a.n * b.d, a.d * b.n)
\* min(a, b) and max(a, b) of Python: the first argument unless the second is
\* strictly smaller (greater)
RMin(a, b) == IF RLt(b, a) THEN b ELSE a
RMax(a, b) == IF RLt(a, b) THEN b ELSE a
RMin3(a, b, c) == RMin(RMin(a, b), c)

\* price=None, true_prob=None
NoNumber == [n |-> 0, d |-> 0]

(***************************************************************************)
(* engine.py                                                               *)
(***************************************************************************)
COMMISSION == Rat(25, 1000)
MIN_EDGE == Rat(5, 100)
DEFAULT_SHRINK == Rat(25, 100)
DEFAULT_MAX_STAKE_PCT == Rat(10, 100)

Pair(ok, edge) == [ok |-> ok, edge |-> edge]

\* evaluate qualifying an edge equal to min_edge
evaluate_not_strict(true_prob, market_price, action, min_edge) ==
    IF action = "BACK"
    THEN Pair(RLe(min_edge, RSub(RSub(true_prob, RDiv(Whole(1), market_price)), COMMISSION)),
              RSub(RSub(true_prob, RDiv(Whole(1), market_price)), COMMISSION))
    ELSE IF action = "LAY"
    THEN Pair(RLe(min_edge, RSub(RSub(RDiv(Whole(1), market_price), true_prob), COMMISSION)),
              RSub(RSub(RDiv(Whole(1), market_price), true_prob), COMMISSION))
    ELSE Pair(FALSE, Whole(0))

\* evaluate(selection, true_prob, market_price, action, min_edge) for market_price # 0;
\* the selection is not read
evaluate(true_prob, market_price, action, min_edge) ==
    IF action = "BACK"
    THEN Pair(RLt(min_edge, RSub(RSub(true_prob, RDiv(Whole(1), market_price)), COMMISSION)),
              RSub(RSub(true_prob, RDiv(Whole(1), market_price)), COMMISSION))
    ELSE IF action = "LAY"
    THEN Pair(RLt(min_edge, RSub(RSub(RDiv(Whole(1), market_price), true_prob), COMMISSION)),
              RSub(RSub(RDiv(Whole(1), market_price), true_prob), COMMISSION))
    ELSE Pair(FALSE, Whole(0))

calculate_dynamic_max_stake_pct(bal) ==
    IF RLt(bal, Whole(100)) THEN Rat(3, 100)
    ELSE IF RLt(bal, Whole(200)) THEN Rat(4, 100)
    ELSE Rat(5, 100)

\* the proportional branch of size_stake
size_stake_proportional(bal, max_exposure_pct, edge, max_stake_pct) ==
    IF RLe(edge, Whole(0)) THEN Whole(0)
    ELSE RMin3(RMul(RMul(bal, max_exposure_pct), RMin(Whole(1), RDiv(edge, Rat(1, 10)))),
               RMul(bal, max_exposure_pct),
               RMul(bal, max_stake_pct))

\* the Kelly fraction after max(0.0, f) and the shrink factor, for price > 1
kelly_fraction(price, true_prob, shrink) ==
    RMul(RMax(Whole(0),
              RDiv(RSub(RMul(RSub(price, Whole(1)), true_prob), RSub(Whole(1), true_prob)),
                   RSub(price, Whole(1)))),
         shrink)

\* size_stake without the cap of max_stake_pct on the Kelly stake
size_stake_no_single_cap(bal, max_exposure_pct, edge, price, true_prob, strategy, shrink, max_stake_pct) ==
    IF strategy = "kelly"
    THEN IF price = NoNumber \/ true_prob = NoNumber
         THEN size_stake_proportional(bal, max_exposure_pct, edge, DEFAULT_MAX_STAKE_PCT)
         ELSE IF RLe(RMax(Whole(0), RSub(price, Whole(1))), Whole(0)) THEN Whole(0)
         ELSE RMin(RMul(bal, kelly_fraction(price, true_prob, shrink)),
                   RMul(bal, max_exposure_pct))
    ELSE size_stake_proportional(bal, max_exposure_pct, edge, max_stake_pct)

\* size_stake; the fallback of the Kelly strategy calls size_stake again with the
\* strategy 'proportional' and passes neither shrink nor max_stake_pct, which take
\* their defaults
size_stake(bal, max_exposure_pct, edge, price, true_prob, strategy, shrink, max_stake_pct) ==
    IF strategy = "kelly"
    THEN IF price = NoNumber \/ true_prob = NoNumber
         THEN size_stake_proportional(bal, max_exposure_pct, edge, DEFAULT_MAX_STAKE_PCT)
         ELSE IF RLe(RMax(Whole(0), RSub(price, Whole(1))), Whole(0)) THEN Whole(0)
         ELSE RMin3(RMul(bal, kelly_fraction(price, true_prob, shrink)),
                    RMul(bal, max_exposure_pct),
                    RMul(bal, max_stake_pct))
    ELSE size_stake_proportional(bal, max_exposure_pct, edge, max_stake_pct)

\* the stake main sizes for an opportunity: size_stake(bet_manager.balance,
\* config max_exposure_pct, edge, price=, true_prob=), the rest by default
main_size_stake(bal, max_exposure_pct, price, true_prob) ==
    size_stake(bal, max_exposure_pct, evaluate(true_prob, price, "BACK", MIN_EDGE).edge,
               price, true_prob, "kelly", DEFAULT_SHRINK, DEFAULT_MAX_STAKE_PCT)

\* the evaluation main makes of a selection: min_edge = config['bot']['min_edge'] is
\* read at startup and passed to no call; evaluate(sel, prob, sel.best_back_price,
\* 'BACK') takes its default min_edge
main_evaluate(config_min_edge, true_prob, price) ==
    evaluate(true_prob, price, "BACK", MIN_EDGE)

(***************************************************************************)
(* The engines called on their own: the arguments are drawn at the start,  *)
(* then the function is applied to them.                                    *)
(***************************************************************************)
EngineBalances == {Whole(0), Whole(30), Whole(150), Whole(1000)}
Percents == {Whole(0), Rat(3, 100), Rat(1, 10), Whole(1)}
Edges == {Rat(-1, 10), Whole(0), Rat(1, 20), Rat(1, 5)}
EnginePrices == {Whole(1), Rat(3, 2), Whole(5)}
Probabilities == {Whole(0), Rat(1, 4), Rat(1, 2), Whole(1)}
Strategies == {"kelly", "proportional"}
Shrinks == {Whole(0), Rat(1, 4), Rat(1, 2), Whole(2)}
MinEdges == {Whole(0), Rat(1, 40), MIN_EDGE}
Actions == {"BACK", "LAY", "HOLD"}

SizeStakeArgs ==
    [op : {"size_stake_args"}, balance : EngineBalances, max_exposure_pct : Percents,
     edge : Edges, price : EnginePrices \cup {NoNumber},
     true_prob : Probabilities \cup {NoNumber}, strategy : Strategies, shrink : Shrinks,
     max_stake_pct : Percents]

EvaluateArgs ==
    [op : {"evaluate_args"}, true_prob : Probabilities \cup {Rat(13, 40)},
     market_price : EnginePrices \cup {Whole(4)}, action : Actions, min_edge : MinEdges]

\* what main sizes a stake from: the balance of the ledger, the configured
\* max_exposure_pct, and the price and probability of a selection evaluate qualified
MainSizingArgs ==
    {a \in [op : {"main_sizing_args"}, balance : EngineBalances,
            max_exposure_pct : Percents, price : EnginePrices, true_prob : Probabilities] :
        evaluate(a.true_prob, a.price, "BACK", MIN_EDGE).ok}

\* the values of bot.min_edge a configuration gives
ConfigMinEdges == {Rat(1, 40), MIN_EDGE, Rat(3, 10)}

\* what main evaluates a selection from: the configured min_edge, the probability of
\* the event in the shoe and the best back price of the selection
MainEvaluateArgs ==
    [op : {"main_evaluate_args"}, min_edge : ConfigMinEdges,
     true_prob : Probabilities \cup {Rat(13, 40)}, price : EnginePrices \cup {Whole(4)}]

\* no session: the ledger, the reconciliation and the loop at rest
InitIdle ==
    /\ balance = StartBalance
    /\ max_exposure = StartMaxExposure
    /\ current_exposure = 0
    /\ active_bets = << >>
    /\ pnl = 0
    /\ trade_history = << >>
    /\ ncalls = 0
    /\ life = [b \in BetIds |-> "new"]
    /\ booked = [b \in BetIds |-> 0]
    /\ disciplined = TRUE
    /\ state = EmptyState
    /\ state_file = NoFile
    /\ csv_rows = << >>
    /\ exchange = << >>
    /\ csv_path = FALSE
    /\ deliveries = [b \in BetIds |-> 0]
    /\ config = NoConfig
    /\ loops = 0
    /\ last_cleared_poll = FALSE
    /\ submissions = << >>
    /\ pc = "running"
    /\ fetches = 0
    /\ rpc = NoCall
    /\ sim = SimulatedAPIClient_init(FULL_SHOE, DEFAULT_DECREMENT, 0, DEFAULT_SETTLE_DELAY)
    /\ reports = << >>

idle == <<ledger, history, recon, loop, ncalls, clients>>

call_size_stake ==
    /\ last.op = "size_stake_args"
    /\ last' = [op |-> "size_stake", args |-> last,
                ret |-> size_stake(last.balance, last.max_exposure_pct, last.edge, last.price,
                                   last.true_prob, last.strategy, last.shrink,
                                   last.max_stake_pct)]
    /\ UNCHANGED idle

call_evaluate ==
    /\ last.op = "evaluate_args"
    /\ last' = [op |-> "evaluate", args |-> last,
                ret |-> evaluate(last.true_prob, last.market_price, last.action,
                                 last.min_edge)]
    /\ UNCHANGED idle

call_main_size_stake ==
    /\ last.op = "main_sizing_args"
    /\ last' = [op |-> "main_size_stake", args |-> last,
                ret |-> main_size_stake(last.balance, last.max_exposure_pct, last.price,
                                        last.true_prob)]
    /\ UNCHANGED idle

\* an opportunity of the polling loop: ret.ok is the `if ok:` under which the stake is
\* sized and the order submitted
call_main_evaluate ==
    /\ last.op = "main_evaluate_args"
    /\ last' = [op |-> "main_evaluate", args |-> last,
                ret |-> main_evaluate(last.min_edge, last.true_prob, last.price)]
    /\ UNCHANGED idle

InitEngine ==
    /\ last \in SizeStakeArgs \cup EvaluateArgs \cup MainSizingArgs \cup MainEvaluateArgs
    /\ InitIdle

NextEngine ==
    \/ call_size_stake
    \/ call_evaluate
    \/ call_main_size_stake
    \/ call_main_evaluate

SpecEngine == InitEngine /\ [][NextEngine]_vars

(***************************************************************************)
(* probabilities.py.  Each event function walks the ordered deals of four  *)
(* cards (r1, r2, r3, r4) and adds p1 * p2 * p3 * p4 for the deals of its  *)
(* event.  The walk keeps the exact sum, as a numerator over               *)
(* N0 * N1 * N2 * N3, and whether a quotient that entered it is one a      *)
(* binary float holds exactly; the float returned is the exact sum when    *)
(* every one is, and else may lie just below or just above it.             *)
(***************************************************************************)
MaxCount == 5
RANKS == 13

card_value(rank) ==
    IF rank = 1 THEN 1
    ELSE IF 2 <= rank /\ rank <= 9 THEN rank
    ELSE 0

\* the test each event function makes on a deal; Player holds r1 and r3, Banker r2 and r4
has_event(name, r1, r2, r3, r4) ==
    CASE name = "prob_pocket_pair" -> r1 = r3 \/ r2 = r4
      [] name = "prob_natural_win" ->
            \/ (card_value(r1) + card_value(r3)) % 10 \in {8, 9}
            \/ (card_value(r2) + card_value(r4)) % 10 \in {8, 9}
      [] name = "prob_natural_tie" ->
            /\ (card_value(r1) + card_value(r3)) % 10 \in {8, 9}
            /\ (card_value(r1) + card_value(r3)) % 10 = (card_value(r2) + card_value(r4)) % 10
      [] name = "prob_highest_hand_nine" ->
            Max((card_value(r1) + card_value(r3)) % 10,
                (card_value(r2) + card_value(r4)) % 10) = 9
      [] name = "prob_highest_hand_odd" ->
            Max((card_value(r1) + card_value(r3)) % 10,
                (card_value(r2) + card_value(r4)) % 10) % 2 = 1

RECURSIVE IsPowerOfTwo(_)
IsPowerOfTwo(n) == n = 1 \/ (n > 1 /\ n % 2 = 0 /\ IsPowerOfTwo(n \div 2))

\* whether the float c / n is the quotient itself
ExactQuotient(c, n) == IsPowerOfTwo(Rat(c, n).d)

\* shoe.card_counts.get(r, 0)
dict_get(d, k, default) == IF k \in DOMAIN d THEN d[k] ELSE default

NothingAdded == [raised |-> FALSE, num |-> 0, inexact |-> FALSE]
ZeroDivision == [raised |-> TRUE, num |-> 0, inexact |-> FALSE]

\* one pass of a for loop after the passes before it: an exception ends the loops
then_pass(before, pass) ==
    IF before.raised THEN before
    ELSE [raised |-> pass.raised, num |-> before.num + pass.num,
          inexact |-> before.inexact \/ pass.inexact]

\* the deals below a card of count c drawn from n: each of their terms takes the
\* factor c / n
with_factor(c, n, below) ==
    IF below.raised THEN below
    ELSE [raised |-> FALSE, num |-> c * below.num,
          inexact |-> below.num # 0 /\ (below.inexact \/ ~ExactQuotient(c, n))]

\* the innermost loop body: p4 = counts3[r4] / N3, then the test of the event
last_card(name, hand, r4, c, n) ==
    IF has_event(name, hand[1], hand[2], hand[3], r4)
    THEN [raised |-> FALSE, num |-> c, inexact |-> ~ExactQuotient(c, n)]
    ELSE NothingAdded

\* for r in range(r, 14) at the depth Len(hand) + 1, with counts and n cards left
RECURSIVE deal(_, _, _, _, _)
deal(name, counts, n, hand, r) ==
    IF r > RANKS THEN NothingAdded
    ELSE IF counts[r] = 0 THEN deal(name, counts, n, hand, r + 1)
    ELSE IF n = 0 THEN ZeroDivision
    ELSE then_pass(IF Len(hand) = 3
                   THEN last_card(name, hand, r, counts[r], n)
                   ELSE with_factor(counts[r], n,
                                    deal(name, [counts EXCEPT ![r] = @ - 1], n - 1,
                                         Append(hand, r), 1)),
                   deal(name, counts, n, hand, r + 1))

\* total_prob as returned, or the ZeroDivisionError
total_prob(sum, n0) ==
    IF sum.raised THEN [kind |-> "raise", q |-> Whole(0), inexact |-> FALSE]
    ELSE IF sum.num = 0 THEN [kind |-> "value", q |-> Whole(0), inexact |-> FALSE]
    ELSE [kind |-> "value", q |-> Rat(sum.num, n0 * (n0 - 1) * (n0 - 2) * (n0 - 3)),
          inexact |-> sum.inexact]

\* the event function of the name: N0 = shoe.cards_remaining,
\* counts0 = {r: shoe.card_counts.get(r, 0) for r in range(1, 14)}
prob(name, shoe) ==
    total_prob(deal(name, [r \in 1..RANKS |-> dict_get(shoe.card_counts, r, 0)],
                    shoe.cards_remaining, << >>, 1),
               shoe.cards_remaining)

prob_pocket_pair(shoe) == prob("prob_pocket_pair", shoe)
prob_natural_win(shoe) == prob("prob_natural_win", shoe)
prob_natural_tie(shoe) == prob("prob_natural_tie", shoe)
prob_highest_hand_nine(shoe) == prob("prob_highest_hand_nine", shoe)
prob_highest_hand_odd(shoe) == prob("prob_highest_hand_odd", shoe)

\* where the float returned lies against the exact sum q: -1 below, 0 on it, 1 above
Roundings(ret) == IF ret.kind = "value" /\ ret.inexact THEN {-1, 0, 1} ELSE {0}

(***************************************************************************)
(* The event functions called on a shoe.                                   *)
(***************************************************************************)
ShoeRanks == {1, 9, 13}

RECURSIVE SumCounts(_, _)
SumCounts(counts, ranks) ==
    IF ranks = {} THEN 0
    ELSE LET r == CHOOSE x \in ranks : TRUE
         IN counts[r] + SumCounts(counts, ranks \ {r})

\* shoes whose cards_remaining is the sum of the rank counts
ValidShoes ==
    {[cards_remaining |-> SumCounts(c, ShoeRanks), card_counts |-> c] :
        c \in [ShoeRanks -> 0..MaxCount]}

\* shoes of fewer than four cards remaining, whatever the counts say
DepletedShoes ==
    [cards_remaining : -1..3, card_counts : [ShoeRanks -> 0..MaxCount]]

\* a call of the event function of the name, which ends as ret
call_prob(name, ret) ==
    /\ \E off \in Roundings(ret) :
          last' = [op |-> name, shoe |-> last.shoe, ret |-> ret, off |-> off]
    /\ UNCHANGED idle

InitProbabilities ==
    /\ last \in [op : {"shoe"}, shoe : ValidShoes \cup DepletedShoes]
    /\ InitIdle

NextProbabilities ==
    /\ last.op = "shoe"
    /\ \/ call_prob("prob_pocket_pair", prob_pocket_pair(last.shoe))
       \/ call_prob("prob_natural_win", prob_natural_win(last.shoe))
       \/ call_prob("prob_natural_tie", prob_natural_tie(last.shoe))
       \/ call_prob("prob_highest_hand_nine", prob_highest_hand_nine(last.shoe))
       \/ call_prob("prob_highest_hand_odd", prob_highest_hand_odd(last.shoe))

SpecProbabilities == InitProbabilities /\ [][NextProbabilities]_vars

(***************************************************************************)
(* Calls of is_live_allowed on the configurations and environments an      *)
(* operator can set up.                                                    *)
(***************************************************************************)
TokenHashes == {"", "h1", "h2"}
EnvTokens == {"", "t1", "t2", "t3"}

GateConfigs ==
    {[c EXCEPT !.operator_token_hash = h, !.operator_token = t] :
         c \in Configs, h \in TokenHashes, t \in EnvTokens}

call_is_live_allowed ==
    /\ last.op = "is_live_allowed_args"
    /\ last' = [op |-> "is_live_allowed", args |-> last, ret |-> is_live_allowed(last.config)]
    /\ UNCHANGED idle

InitGate ==
    /\ last \in {[op |-> "is_live_allowed_args", config |-> c] : c \in GateConfigs}
    /\ InitIdle

NextGate == call_is_live_allowed

SpecGate == InitGate /\ [][NextGate]_vars

(***************************************************************************)
(* Calls of json_rpc: the caller enters it, and each POST ends as the      *)
(* network and the exchange decide.                                        *)
(***************************************************************************)
StatusCodes == {200, 204, 400, 429, 500, 503}

PostOutcomes ==
    {NetworkException}
    \cup {Response(200, b) : b \in Bodies}
    \cup {Response(st, "<html>") : st \in StatusCodes \ {200}}

json_rpc(retry_on_json_error) ==
    /\ rpc.phase # "running"
    /\ rpc' = rpc_start(retry_on_json_error)
    /\ UNCHANGED <<ledger, history, recon, loop, ncalls, last, sim, reports>>

session_post(resp) ==
    /\ rpc.phase = "running"
    /\ rpc' = rpc_attempt([rpc EXCEPT !.posts = Append(@, resp)], resp)
    /\ UNCHANGED <<ledger, history, recon, loop, ncalls, last, sim, reports>>

InitRpc ==
    /\ last = [op |-> "init", bet_id |-> "", ret |-> None]
    /\ InitIdle

NextRpc ==
    \/ \E retry_on_json_error \in BOOLEAN : json_rpc(retry_on_json_error)
    \/ \E resp \in PostOutcomes : session_post(resp)

SpecRpc == InitRpc /\ [][NextRpc]_vars

(***************************************************************************)
(* Snapshots of a SimulatedAPIClient started with a full shoe.             *)
(***************************************************************************)
MaxSnapshots == 10
MaxBets == 2

Decrements == {0, 1, DEFAULT_DECREMENT, 50, FULL_SHOE, 500}
ResetAfters == {0, 1, 2, 5}

get_snapshot(won) ==
    /\ sim.iteration < MaxSnapshots
    /\ sim' = sim_get_snapshot(sim)
    /\ last' = [op |-> "get_snapshot",
                cardsRemaining |-> sim_get_snapshot(sim).cards_remaining,
                cardCounts |-> sim_get_snapshot(sim).card_counts,
                settlements |-> settlements_xml(sim, won)]
    /\ reports' = [b \in DOMAIN reports |->
                      [fetched |-> reports[b].fetched + 1,
                       reported_in |-> IF \E x \in settlements_xml(sim, won) : x.betId = b
                                       THEN reports[b].reported_in \cup {reports[b].fetched + 1}
                                       ELSE reports[b].reported_in]]
    /\ UNCHANGED <<ledger, history, recon, loop, ncalls, rpc>>

post_bet_order(price, stake, selection_id) ==
    /\ sim.next_bet_id <= MaxBets
    /\ sim' = sim_post_bet_order(sim, price, stake, selection_id)
    /\ last' = [op |-> "post_bet_order", status |-> "ACCEPTED",
                selectionId |-> selection_id, betId |-> ToString(sim.next_bet_id)]
    /\ reports' = dict_set(reports, ToString(sim.next_bet_id),
                           [fetched |-> 0, reported_in |-> {}])
    /\ UNCHANGED <<ledger, history, recon, loop, ncalls, rpc>>

InitSimulated ==
    /\ last = [op |-> "init", bet_id |-> "", ret |-> None]
    /\ balance = StartBalance
    /\ csv_path = FALSE
    /\ config = NoConfig
    /\ max_exposure = StartMaxExposure
    /\ current_exposure = 0
    /\ active_bets = << >>
    /\ pnl = 0
    /\ trade_history = << >>
    /\ ncalls = 0
    /\ life = [b \in BetIds |-> "new"]
    /\ booked = [b \in BetIds |-> 0]
    /\ disciplined = TRUE
    /\ state = EmptyState
    /\ state_file = NoFile
    /\ csv_rows = << >>
    /\ exchange = << >>
    /\ deliveries = [b \in BetIds |-> 0]
    /\ loops = 0
    /\ last_cleared_poll = FALSE
    /\ submissions = << >>
    /\ pc = "running"
    /\ fetches = 0
    /\ rpc = NoCall
    /\ sim \in {SimulatedAPIClient_init(FULL_SHOE, d, r, DEFAULT_SETTLE_DELAY) :
                    d \in Decrements, r \in ResetAfters}
    /\ reports = << >>

NextSimulated == get_snapshot({})

SpecSimulated == InitSimulated /\ [][NextSimulated]_vars

(***************************************************************************)
(* Bets placed with the simulator between its snapshots.                   *)
(***************************************************************************)
SettleDelays == {0, 1, DEFAULT_SETTLE_DELAY}
SelectionIds == {"1", "2"}

InitSettlement ==
    /\ last = [op |-> "init", bet_id |-> "", ret |-> None]
    /\ sim \in {SimulatedAPIClient_init(FULL_SHOE, DEFAULT_DECREMENT, r, d) :
                    r \in {0, 2}, d \in SettleDelays}
    /\ reports = << >>
    /\ rpc = NoCall
    /\ balance = StartBalance
    /\ max_exposure = StartMaxExposure
    /\ current_exposure = 0
    /\ active_bets = << >>
    /\ pnl = 0
    /\ trade_history = << >>
    /\ ncalls = 0
    /\ life = [b \in BetIds |-> "new"]
    /\ booked = [b \in BetIds |-> 0]
    /\ disciplined = TRUE
    /\ state = EmptyState
    /\ state_file = NoFile
    /\ csv_rows = << >>
    /\ exchange = << >>
    /\ csv_path = FALSE
    /\ deliveries = [b \in BetIds |-> 0]
    /\ config = NoConfig
    /\ loops = 0
    /\ last_cleared_poll = FALSE
    /\ submissions = << >>
    /\ pc = "running"
    /\ fetches = 0

NextSettlement ==
    \/ \E won \in SUBSET to_settle(sim) : get_snapshot(won)
    \/ \E price \in Prices, selection_id \in SelectionIds : post_bet_order(price, 1, selection_id)

SpecSettlement == InitSettlement /\ [][NextSettlement]_vars

(***************************************************************************)
(* Properties of the ledger.                                               *)
(***************************************************************************)
RECURSIVE SumStakesOver(_, _)
SumStakesOver(bets, ids) ==
    IF ids = {} THEN 0
    ELSE LET b == CHOOSE x \in ids : TRUE
         IN bets[b].stake + SumStakesOver(bets, ids \ {b})

\* the sum of the stakes of the records in active_bets
SumStakes(bets) == SumStakesOver(bets, DOMAIN bets)

SettlementOps == {"process_settlement", "process_cleared_order"}

\* C1: after any sequence of record_accepted, process_settlement and
\* process_cleared_order calls (an id may be accepted again while it is active),
\* current_exposure equals the sum of the stakes of the records in active_bets.
C1_ExposureEqualsActiveStakes == current_exposure = SumStakes(active_bets)

\* C2: for a bet recorded by record_accepted, the first process_settlement for its id
\* returns a profit (not None); every later process_settlement for the id returns
\* None and leaves balance, current_exposure, pnl, active_bets and trade_history
\* (and max_exposure) unchanged.
C2_SettlementIdempotent ==
    [][last'.op = "process_settlement" =>
         /\ (life[last'.bet_id] = "active" => last'.ret.kind = "value")
         /\ (life[last'.bet_id] = "settled" => last'.ret = None /\ UNCHANGED ledger)]_vars

\* a second process_settlement for a settled bet has been made
C2_Witness ==
    /\ last.op = "process_settlement"
    /\ life[last.bet_id] = "settled"
    /\ last.ret = None
    /\ booked[last.bet_id] = 1

\* C3: when process_settlement and process_cleared_order are both called for one
\* accepted bet id, in either order, the first call returns a profit, removes the
\* record, releases the stake and books one trade_history entry; the second call
\* returns None and changes nothing, so the bet is booked exactly once.
C3_FirstPathWins ==
    [][last'.op \in SettlementOps =>
         LET id == last'.bet_id IN
         /\ (life[id] = "active" =>
                /\ last'.ret.kind = "value"
                /\ id \in DOMAIN active_bets /\ id \notin DOMAIN active_bets'
                /\ current_exposure' = current_exposure - active_bets[id].stake
                /\ booked'[id] = 1
                /\ life'[id] \in {"settled", "cleared"})
         /\ (life[id] \in {"settled", "cleared"} =>
                /\ last'.ret = None
                /\ UNCHANGED ledger
                /\ booked'[id] = 1)]_vars

\* the cleared-order path was called for a bet the direct path had settled
C3_Witness ==
    /\ last.op = "process_cleared_order"
    /\ life[last.bet_id] = "settled"
    /\ last.ret = None
    /\ booked[last.bet_id] = 1

\* the trade_history entries booked for a bet id
CountEntries(hist, b) == Cardinality({i \in DOMAIN hist : hist[i].bet_id = b})

RECURSIVE SumProfits(_)
SumProfits(hist) == IF hist = << >> THEN 0 ELSE Head(hist).profit + SumProfits(Tail(hist))

\* C4: across any sequence of reconcile_cleared_orders calls whose feed answers may
\* repeat a cleared order (processed_bet_ids may have been trimmed in between), the
\* ledger effect of the cleared order of an accepted bet is applied exactly once:
\* no bet id is booked twice, a bet whose order a completed call was handed is no
\* longer active and is booked once, every released stake left current_exposure
\* once and every profit reached balance and pnl once.
C4_ClearedOrderAppliedOnce ==
    /\ \A b \in BetIds : CountEntries(trade_history, b) <= 1
    /\ \A b \in BetIds : deliveries[b] >= 1 =>
           (b \notin DOMAIN active_bets /\ CountEntries(trade_history, b) = 1)
    /\ current_exposure = SumStakes(active_bets)
    /\ pnl = SumProfits(trade_history)
    /\ balance + current_exposure = StartBalance + pnl

\* a cleared order that a reconcile call had applied was handed over again after its
\* id was trimmed from processed_bet_ids, and was passed to the ledger a second time
C4_Witness ==
    /\ last.op = "reconcile_cleared_orders"
    /\ \E i \in DOMAIN last.calls :
          /\ last.calls[i].ret = None
          /\ life[last.calls[i].bet_id] = "cleared"
          /\ deliveries[last.calls[i].bet_id] >= 2
          /\ CountEntries(trade_history, last.calls[i].bet_id) = 1

\* C5: every process_settlement / process_cleared_order call is all-or-nothing: it
\* removes the record and applies the complete balance, current_exposure and pnl
\* update (booking one trade_history entry), or it leaves the record and the three
\* fields as they were, also when float() rejects the profit or the commission.
C5_SettlementAtomic ==
    [][last'.op \in SettlementOps =>
         LET id == last'.bet_id IN
         \/ UNCHANGED ledger
         \/ /\ last'.ret.kind = "value"
            /\ id \in DOMAIN active_bets /\ id \notin DOMAIN active_bets'
            /\ current_exposure' = release_exposure(current_exposure, active_bets[id].stake)
            /\ pnl' = pnl + last'.ret.v
            /\ Len(trade_history') = Len(trade_history) + 1
            /\ trade_history'[Len(trade_history')] =
                   [bet_id |-> id, profit |-> last'.ret.v, balance |-> balance']]_vars

\* C6: in the polling loop an order is submitted through a non-simulated API client
\* (config simulate = false) only when is_live_allowed(config) is true, for every
\* combination of simulate, simulate_place_bets, live_enabled and the operator token.
C6_LiveOrdersGated ==
    \A i \in DOMAIN submissions :
        submissions[i].client = "live" => submissions[i].live_allowed

\* C7: if every record_accepted was preceded by can_place(stake) returning true on
\* the same ledger state, with stake >= 0, and bets were settled by
\* process_settlement with payout >= 0 only, then current_exposure <= max_exposure
\* and balance >= 0.
C7_GuardedLedgerWithinLimits ==
    disciplined => (current_exposure <= max_exposure /\ balance >= 0)

\* two guarded bets fill the exposure limit after an earlier bet was settled
C7_Witness ==
    /\ disciplined
    /\ Len(trade_history) >= 1
    /\ last.op = "record_accepted"
    /\ current_exposure = max_exposure

\* C8: record_accepted(bet_id, opp) decreases balance by opp.stake, increases
\* current_exposure by opp.stake, stores a record with that stake and price under
\* bet_id, and leaves pnl, trade_history, max_exposure and every other active
\* record unchanged.
C8_RecordAcceptedEffect ==
    [][last'.op = "record_accepted" =>
         LET id == last'.bet_id IN
         /\ balance' = balance - last'.stake
         /\ current_exposure' = current_exposure + last'.stake
         /\ DOMAIN active_bets' = (DOMAIN active_bets) \cup {id}
         /\ active_bets'[id] = [stake |-> last'.stake, price |-> last'.price]
         /\ \A o \in (DOMAIN active_bets) \ {id} : active_bets'[o] = active_bets[o]
         /\ UNCHANGED <<pnl, trade_history, max_exposure>>]_vars

\* a second bet was recorded beside an active one
C8_Witness ==
    /\ last.op = "record_accepted"
    /\ last.stake = MaxStake
    /\ Cardinality(DOMAIN active_bets) = 2
    /\ current_exposure = MaxStake + 1

\* C9: for an active bet, process_settlement with status WON adds stake + payout to
\* balance and returns payout; with any other status it leaves balance unchanged
\* and returns -stake; in both cases current_exposure decreases by the stake, pnl
\* increases by the returned profit and one {bet_id, profit, balance} entry is
\* appended to trade_history.
C9_ProcessSettlementEffect ==
    [][(last'.op = "process_settlement" /\ last'.bet_id \in DOMAIN active_bets) =>
         LET id == last'.bet_id
             stake == active_bets[id].stake
         IN
         /\ (last'.status = "WON" =>
                balance' = balance + stake + last'.payout /\ last'.ret = Value(last'.payout))
         /\ (last'.status # "WON" =>
                balance' = balance /\ last'.ret = Value(-stake))
         /\ current_exposure' = current_exposure - stake
         /\ pnl' = pnl + last'.ret.v
         /\ trade_history' = Append(trade_history,
                [bet_id |-> id, profit |-> last'.ret.v, balance |-> balance'])]_vars

\* the regression scenario in units of 31.25: balance 1000, stake 31.25 accepted,
\* WON with payout 125 gives balance 1125, exposure 0, pnl 125
C9_Witness ==
    /\ last.op = "process_settlement"
    /\ last.status = "WON"
    /\ last.payout = 4
    /\ trade_history = <<[bet_id |-> last.bet_id, profit |-> 4, balance |-> 36]>>
    /\ balance = 36
    /\ current_exposure = 0
    /\ pnl = 4

\* C10: for an active bet, process_cleared_order with an explicit profit p and
\* commission c adds stake + p - c to balance and returns p - c; without a profit
\* field and with outcome WON it uses p = stake * (price - 1); with any other
\* outcome it credits nothing and returns -stake - c, the commission still being
\* deducted from balance.  A missing commission counts as 0; the outcome is the
\* betOutcome field, or the status field when betOutcome is missing.
C10_ProcessClearedOrderEffect ==
    [][(last'.op = "process_cleared_order" /\ last'.bet_id \in DOMAIN active_bets) =>
         LET c == last'.cleared
             stake == active_bets[c.betId].stake
             price == active_bets[c.betId].price
             com == c.commissionPaid.v
             won == c.betOutcome = "WON" \/ (c.betOutcome = "" /\ c.status = "WON")
         IN
         /\ (c.profit.kind = "num" =>
                /\ balance' = balance + stake + c.profit.v - com
                /\ last'.ret = Value(c.profit.v - com))
         /\ (c.profit.kind = "absent" /\ won =>
                /\ balance' = balance + stake + stake * (price - 1) - com
                /\ last'.ret = Value(stake * (price - 1) - com))
         /\ (c.profit.kind = "absent" /\ ~won =>
                /\ balance' = balance - com
                /\ last'.ret = Value(-stake - com))]_vars

\* a won cleared order without profit field, named by its status field, with commission
C10_Witness ==
    /\ last.op = "process_cleared_order"
    /\ last.cleared.profit.kind = "absent"
    /\ last.cleared.betOutcome = "" /\ last.cleared.status = "WON"
    /\ last.cleared.commissionPaid.v = MaxCommission
    /\ last.ret = Value(MaxStake * 4 - MaxCommission)
    /\ balance = StartBalance + MaxStake * 4 - MaxCommission
\* C11: can_place(stake) returns true exactly when stake <= balance and
\* current_exposure + stake <= max_exposure, and changes no ledger field.
C11_CanPlaceIsPureLimitTest ==
    [][last'.op = "can_place" =>
         /\ (last'.ret = Bool(TRUE) \/ last'.ret = Bool(FALSE))
         /\ (last'.ret = Bool(TRUE) <=>
                (last'.stake <= balance /\ current_exposure + last'.stake <= max_exposure))
         /\ UNCHANGED ledger]_vars

\* a stake that exactly fills the remaining exposure was admitted beside an active bet
C11_Witness ==
    /\ last.op = "can_place"
    /\ last.ret = Bool(TRUE)
    /\ current_exposure > 0
    /\ current_exposure + last.stake = max_exposure

\* a stake within the exposure limit but above the balance was refused
C11_WitnessRefused ==
    /\ last.op = "can_place"
    /\ last.ret = Bool(FALSE)
    /\ current_exposure + last.stake <= max_exposure
    /\ last.stake > balance
\* C12: process_settlement and process_cleared_order called with a bet id that was
\* never accepted return None and leave balance, current_exposure, pnl, active_bets
\* and trade_history (and max_exposure) unchanged.
C12_UnknownIdIsNoOp ==
    [][(last'.op \in SettlementOps /\ life[last'.bet_id] = "new") =>
         (last'.ret = None /\ UNCHANGED ledger)]_vars

\* a cleared order for an id never accepted arrived while another bet was active
C12_Witness ==
    /\ last.op = "process_cleared_order"
    /\ life[last.bet_id] = "new"
    /\ last.ret = None
    /\ active_bets # << >>
    /\ trade_history = << >>
\* C13: the state file always holds the state returned by the most recent
\* reconcile_cleared_orders call that completed: a call whose feed query or order
\* application raises leaves the file as it was, a call that completes leaves a file
\* from which load_state gives exactly the returned last_cleared_timestamp and
\* processed_bet_ids, and nothing else writes the file.
C13_StateFileHoldsLastCompletedState ==
    [][IF ncalls' # ncalls /\ last'.op = "reconcile_cleared_orders"
       THEN IF last'.ret = Raise
            THEN state_file' = state_file
            ELSE /\ state_file'.exists
                 /\ load_state(state_file') = state'
       ELSE state_file' = state_file]_vars

\* the application of a cleared order raised after an earlier call had saved a state
C13_Witness ==
    /\ last.op = "reconcile_cleared_orders"
    /\ last.ret = Raise
    /\ last.calls # << >>
    /\ state_file.exists
    /\ load_state(state_file).processed_bet_ids # << >>
    /\ Len(trade_history) >= 1
\* the instant a timestamp text denotes, on the UTC clock
Instant(text) == text.clock - text.offset

\* the calls of a reconcile call that carried a settledDate in ISO-8601
Dated(calls) == {i \in DOMAIN calls : calls[i].settled.kind = "iso"}

\* C14: after a successful reconcile_cleared_orders call, last_cleared_timestamp
\* equals the greatest settledDate among the cleared orders processed in that call
\* (those not skipped as already processed) if there is one, and otherwise keeps its
\* previous value.
C14_CursorIsGreatestSettledDate ==
    [][(ncalls' # ncalls /\ last'.op = "reconcile_cleared_orders" /\ last'.ret = None) =>
         IF Dated(last'.calls) = {}
         THEN state'.last_cleared_timestamp = state.last_cleared_timestamp
         ELSE /\ state'.last_cleared_timestamp.kind = "iso"
              /\ \E i \in Dated(last'.calls) :
                    Instant(state'.last_cleared_timestamp) = Instant(last'.calls[i].settled)
              /\ \A i \in Dated(last'.calls) :
                    Instant(state'.last_cleared_timestamp) >= Instant(last'.calls[i].settled)]_vars
NoDuplicates(list) == \A i, j \in DOMAIN list : list[i] = list[j] => i = j

Min(a, b) == IF a <= b THEN a ELSE b

\* the ids a reconcile call handed to the ledger, in processing order
ProcessedIn(calls) == [i \in DOMAIN calls |-> calls[i].bet_id]

RowsFor(rows, b) == Cardinality({i \in DOMAIN rows : rows[i].betId = b})

\* the calls of a reconcile call in which the ledger applied the order of a bet id
AppliedIn(calls, b) ==
    Cardinality({i \in DOMAIN calls : calls[i].bet_id = b /\ calls[i].ret.kind = "value"})

\* C16: with an audit CSV configured, every reconcile_cleared_orders call appends one
\* row per applied cleared order: the rows it writes for a bet id are as many as the
\* times the ledger applied that order in the call, so that over any sequence of calls
\* the rows of a bet id count the applications of its order, with no row for an
\* order the ledger ignored.
C16_CsvRowPerAppliedOrder ==
    [][(ncalls' # ncalls /\ last'.op = "reconcile_cleared_orders" /\ csv_path) =>
         \A b \in BetIds :
             RowsFor(csv_rows', b) - RowsFor(csv_rows, b) = AppliedIn(last'.calls, b)]_vars
\* C17: main(iterations=n) performs exactly n polling iterations, one snapshot fetch
\* each, and then returns; an exception raised in an iteration (snapshot fetch,
\* parsing, settlement, reconciliation, evaluation or order placement) never ends
\* the loop early.
C17_LoopRunsExactlyN ==
    /\ pc # "crashed"
    /\ fetches = loops
    /\ loops <= config.iterations
    /\ pc = "returned" => loops = config.iterations
    /\ (pc = "running" /\ loops = config.iterations) => ENABLED main_returns
    /\ (last.op = "poll_iteration" /\ last.error) => loops >= 1

C17_Witness ==
    /\ pc = "returned"
    /\ config.iterations = MaxIterations
    /\ fetches = MaxIterations
    /\ last.op = "poll_iteration"
    /\ last.error

\* C18: when a snapshot lacks the shoe or the marketSelections element, that
\* iteration applies no settlement, runs no reconciliation, submits no order and
\* leaves every ledger field unchanged, and the loop goes on to the next iteration.
C18_IncompleteSnapshotSkipsIteration ==
    [][(/\ fetches' = fetches + 1
        /\ last'.snapshot.fetch = "ok"
        /\ ~(last'.snapshot.has_shoe /\ last'.snapshot.has_selections))
       => (/\ last'.calls = << >>
           /\ ~last'.reconciled
           /\ last_cleared_poll' = last_cleared_poll
           /\ state' = state
           /\ state_file' = state_file
           /\ csv_rows' = csv_rows
           /\ submissions' = submissions
           /\ last'.decisions = << >>
           /\ ledger' = ledger
           /\ loops' = loops + 1
           /\ pc' = "running")]_vars

C18_Witness ==
    /\ last.op = "poll_iteration"
    /\ last.snapshot.fetch = "ok"
    /\ ~last.snapshot.has_shoe
    /\ last.snapshot.has_selections
    /\ last.snapshot.settles_active
    /\ config.use_exchange_api
    /\ config.simulate_place_bets
    /\ pc = "running"

\* C19: in the polling loop, when can_place(stake) is false for a qualifying
\* opportunity, no order is submitted for it and the ledger is unchanged by it.
C19_RefusedOpportunityIsDropped ==
    last.op = "poll_iteration" =>
        \A i \in DOMAIN last.decisions :
            (last.decisions[i].qualifying /\ ~last.decisions[i].admitted)
                => (/\ ~last.decisions[i].submitted
                    /\ ~last.decisions[i].recorded
                    /\ ~last.decisions[i].ledger_changed)

C19_Witness ==
    /\ last.op = "poll_iteration"
    /\ config.simulate_place_bets
    /\ \E i \in DOMAIN last.decisions :
           /\ last.decisions[i].qualifying
           /\ ~last.decisions[i].admitted
           /\ ~last.decisions[i].submitted

\* C20: the polling loop calls record_accepted only for an order response whose
\* status is ACCEPTED and which carries a betId; a response with another status, an
\* ACCEPTED response without betId, or a submission that raises leaves the ledger
\* unchanged.
C20_OnlyAcceptedWithBetIdIsRecorded ==
    last.op = "poll_iteration" =>
        /\ \A i \in DOMAIN last.decisions :
               /\ last.decisions[i].recorded
                      => (/\ last.decisions[i].submitted
                          /\ last.decisions[i].response.status = "ACCEPTED"
                          /\ last.decisions[i].response.betId # "")
               /\ (/\ last.decisions[i].submitted
                   /\ \/ last.decisions[i].response.status # "ACCEPTED"
                      \/ last.decisions[i].response.betId = "")
                      => (~last.decisions[i].recorded /\ ~last.decisions[i].ledger_changed)
               /\ ~last.decisions[i].recorded => ~last.decisions[i].ledger_changed
        /\ Cardinality({i \in DOMAIN last.calls : last.calls[i].op = "record_accepted"})
               = Cardinality({i \in DOMAIN last.decisions : last.decisions[i].recorded})

C20_Witness ==
    /\ last.op = "poll_iteration"
    /\ \E i \in DOMAIN last.decisions :
           /\ last.decisions[i].submitted
           /\ last.decisions[i].response.status = "ACCEPTED"
           /\ last.decisions[i].response.betId = ""
           /\ ~last.decisions[i].recorded

(***************************************************************************)
(* Properties of the engines.                                              *)
(***************************************************************************)
\* C21: for all inputs with balance >= 0, 0 <= max_exposure_pct <= 1,
\* 0 <= max_stake_pct <= 1 and shrink >= 0, with either strategy and with or without
\* price and true_prob, size_stake returns a stake
\* <= min(balance, balance * max_exposure_pct, balance * max_stake_pct).
C21_StakeWithinAllCaps ==
    last.op = "size_stake" =>
        /\ RLe(last.ret, last.args.balance)
        /\ RLe(last.ret, RMul(last.args.balance, last.args.max_exposure_pct))
        /\ RLe(last.ret, RMul(last.args.balance, last.args.max_stake_pct))

\* the stake the Kelly rule names: min(balance * shrink * max(0, (b*p - q)/b),
\* balance * max_exposure_pct, balance * max_stake_pct) with b = price - 1, p = true_prob,
\* q = 1 - p
KellyRule(a) ==
    RMin3(RMul(RMul(a.balance, a.shrink),
               RMax(Whole(0),
                    RDiv(RSub(RMul(RSub(a.price, Whole(1)), a.true_prob),
                              RSub(Whole(1), a.true_prob)),
                         RSub(a.price, Whole(1))))),
          RMul(a.balance, a.max_exposure_pct),
          RMul(a.balance, a.max_stake_pct))

\* C22: with strategy kelly and both price and true_prob given, size_stake returns 0
\* when price <= 1 and otherwise min(balance * shrink * max(0, (b*p - q)/b),
\* balance * max_exposure_pct, balance * max_stake_pct); balance 1000, price 5.0,
\* true_prob 0.25, shrink 0.5, max_exposure_pct 0.1 yields 31.25.
C22_KellyStake ==
    (/\ last.op = "size_stake"
     /\ last.args.strategy = "kelly"
     /\ last.args.price # NoNumber
     /\ last.args.true_prob # NoNumber)
    => /\ RLe(last.args.price, Whole(1)) => last.ret = Whole(0)
       /\ RLt(Whole(1), last.args.price) => last.ret = KellyRule(last.args)
       /\ (/\ last.args.balance = Whole(1000)
           /\ last.args.price = Whole(5)
           /\ last.args.true_prob = Rat(1, 4)
           /\ last.args.shrink = Rat(1, 2)
           /\ last.args.max_exposure_pct = Rat(1, 10)
           /\ last.args.max_stake_pct = DEFAULT_MAX_STAKE_PCT)
          => last.ret = Rat(3125, 100)

C22_Witness ==
    /\ last.op = "size_stake"
    /\ last.args.strategy = "kelly"
    /\ last.args.balance = Whole(1000)
    /\ last.args.price = Whole(5)
    /\ last.args.true_prob = Rat(1, 4)
    /\ last.args.shrink = Rat(1, 2)
    /\ last.args.max_exposure_pct = Rat(1, 10)
    /\ last.args.max_stake_pct = DEFAULT_MAX_STAKE_PCT
    /\ last.ret = Rat(3125, 100)

\* C23: evaluate returns edge = true_prob - 1/market_price - 0.025 for BACK and
\* edge = 1/market_price - true_prob - 0.025 for LAY, qualifies exactly when
\* edge > min_edge (strictly), and returns (False, 0.0) for any other action.
C23_EvaluateEdge ==
    last.op = "evaluate" =>
        /\ last.args.action = "BACK" =>
               last.ret.edge = RSub(RSub(last.args.true_prob,
                                         RDiv(Whole(1), last.args.market_price)),
                                    Rat(25, 1000))
        /\ last.args.action = "LAY" =>
               last.ret.edge = RSub(RSub(RDiv(Whole(1), last.args.market_price),
                                         last.args.true_prob),
                                    Rat(25, 1000))
        /\ last.args.action \in {"BACK", "LAY"} =>
               (last.ret.ok <=> RLt(last.args.min_edge, last.ret.edge))
        /\ last.args.action \notin {"BACK", "LAY"} => last.ret = Pair(FALSE, Whole(0))

\* an edge equal to min_edge, which does not qualify
C23_Witness ==
    /\ last.op = "evaluate"
    /\ last.args.action = "BACK"
    /\ last.ret.edge = last.args.min_edge
    /\ last.args.min_edge = MIN_EDGE
    /\ ~last.ret.ok

\* C24: every stake sized for an opportunity is capped by the tiered max_stake_pct
\* (3% when balance < 100, 4% when 100 <= balance < 200, 5% when balance >= 200)
\* evaluated on the ledger's current balance at the moment of sizing.
C24_StakeCappedByTier ==
    last.op = "main_size_stake" =>
        RLe(last.ret, RMul(last.args.balance,
                           calculate_dynamic_max_stake_pct(last.args.balance)))

(***************************************************************************)
(* Properties of the probability engine.                                   *)
(***************************************************************************)
EventFunctions ==
    {"prob_pocket_pair", "prob_natural_win", "prob_natural_tie", "prob_highest_hand_nine",
     "prob_highest_hand_odd"}

\* the float returned lies in [0, 1]
InUnitInterval(ret, off) ==
    /\ ret.kind = "value"
    /\ RLe(Whole(0), ret.q)
    /\ RLe(ret.q, Whole(1))
    /\ ~(ret.q = Whole(1) /\ off = 1)
    /\ ~(ret.q = Whole(0) /\ off = -1)

\* C25: for every valid ShoeState (non-negative rank counts, cards_remaining equal to
\* their sum), each of prob_pocket_pair, prob_natural_win, prob_natural_tie,
\* prob_highest_hand_nine and prob_highest_hand_odd returns a value in [0,1].
C25_ProbabilityInUnitInterval ==
    (last.op \in EventFunctions /\ last.shoe \in ValidShoes)
        => InUnitInterval(last.ret, last.off)

\* C26: for every ShoeState with cards_remaining < 4, whatever its card_counts, each
\* probability event function returns 0.0 and never divides by zero or by a negative
\* remaining total.
C26_DepletedShoeGivesZero ==
    (last.op \in EventFunctions /\ last.shoe.cards_remaining < 4)
        => (last.ret.kind = "value" /\ last.ret.q = Whole(0) /\ last.off = 0)

(***************************************************************************)
(* Properties of the API clients.                                          *)
(***************************************************************************)
IsParsed200(resp) == resp.kind = "response" /\ resp.status = 200 /\ resp.body \in JsonBodies
IsMalformed200(resp) ==
    resp.kind = "response" /\ resp.status = 200 /\ resp.body \notin JsonBodies
IsTransient(resp) ==
    resp.kind = "exception" \/ (resp.kind = "response" /\ resp.status \in {429, 503})
IsClientOrServerError(resp) ==
    resp.kind = "response" /\ resp.status >= 400 /\ resp.status \notin {429, 503}

\* C27: json_rpc issues at most 3 POSTs per call: a 429 or 503 status or a network
\* exception on attempt 1 or 2 leads to another attempt, the call returns the parsed
\* JSON of the first 200 response and issues no further POST, and if all three
\* attempts fail in a retryable way the call raises.
C27_BoundedRetry ==
    /\ Len(rpc.posts) <= 3
    /\ rpc.phase = "running" => Len(rpc.posts) < 3
    /\ (Len(rpc.posts) \in {1, 2} /\ IsTransient(rpc.posts[Len(rpc.posts)]))
           => rpc.phase = "running"
    /\ \A i \in DOMAIN rpc.posts :
           IsParsed200(rpc.posts[i])
               => (/\ i = Len(rpc.posts)
                   /\ rpc.phase = "returned"
                   /\ rpc.ret = resp_json(rpc.posts[i].body))
    /\ (Len(rpc.posts) = 3 /\ \A i \in DOMAIN rpc.posts : IsTransient(rpc.posts[i]))
           => rpc.phase = "raised"

C27_Witness ==
    /\ rpc.phase = "returned"
    /\ Len(rpc.posts) = 3
    /\ rpc.posts[1] = Response(429, "<html>")
    /\ rpc.posts[2] = NetworkException
    /\ rpc.posts[3] = Response(200, "{r2}")
    /\ rpc.ret = Value("r2")

\* C28: json_rpc does not retry non-retryable failures: an HTTP error status other
\* than 429/503 (e.g. 400) raises after exactly one POST, and a 200 response whose
\* body fails JSON decoding raises ValueError after exactly one POST unless
\* retry_on_json_error is set, in which case it is retried within the 3-attempt bound.
C28_NoRetryOfOtherFailures ==
    /\ \A i \in DOMAIN rpc.posts :
           /\ IsClientOrServerError(rpc.posts[i])
                  => (i = Len(rpc.posts) /\ rpc.phase = "raised" /\ rpc.error = "HTTPError")
           /\ (IsMalformed200(rpc.posts[i]) /\ ~rpc.retry_on_json_error)
                  => (i = Len(rpc.posts) /\ rpc.phase = "raised" /\ rpc.error = "ValueError")
           /\ (IsMalformed200(rpc.posts[i]) /\ rpc.retry_on_json_error)
                  => IF i < 3 THEN i < Len(rpc.posts) \/ rpc.phase = "running"
                     ELSE rpc.phase = "raised" /\ rpc.error = "ValueError"
    /\ (rpc.posts # << >> /\ IsClientOrServerError(rpc.posts[1])) => Len(rpc.posts) = 1
    /\ (rpc.posts # << >> /\ IsMalformed200(rpc.posts[1]) /\ ~rpc.retry_on_json_error)
           => Len(rpc.posts) = 1
    /\ Len(rpc.posts) <= 3

C28_Witness ==
    /\ rpc.retry_on_json_error
    /\ rpc.phase = "raised"
    /\ rpc.error = "HTTPError"
    /\ Len(rpc.posts) = 2
    /\ rpc.posts[1] = Response(200, "<html>")
    /\ rpc.posts[2] = Response(400, "<html>")

\* C29: is_live_allowed(config) is true only if simulate is false, live_enabled is
\* true, an operator_token_hash is configured and the SHA-256 of the operator token
\* found in the environment equals it; in every other case it is false.
C29_LiveAllowedOnlyWhenAuthorised ==
    last.op = "is_live_allowed" =>
        (last.ret = TRUE <=>
            /\ ~last.args.config.simulate
            /\ last.args.config.live_enabled
            /\ last.args.config.operator_token_hash # ""
            /\ last.args.config.operator_token # ""
            /\ sha256_hex(last.args.config.operator_token)
                   = last.args.config.operator_token_hash)

C29_Witness ==
    /\ last.op = "is_live_allowed"
    /\ last.ret = TRUE
    /\ last.args.config.operator_token = "t2"
    /\ last.args.config.operator_token_hash = "h2"

\* C31: a bet accepted by SimulatedAPIClient.post_bet_order is reported as a
\* settlement in exactly one later snapshot, namely the (settle_delay + 1)-th snapshot
\* fetched after placement, and it is absent from pending_bets from that snapshot on.
C31_SettledInOneSnapshotAfterDelay ==
    \A b \in DOMAIN reports :
        IF reports[b].fetched < sim.settle_delay + 1
        THEN reports[b].reported_in = {} /\ b \in DOMAIN sim.pending_bets
        ELSE reports[b].reported_in = {sim.settle_delay + 1} /\ b \notin DOMAIN sim.pending_bets

\* the scenario of the test suite with the default delay: the third snapshot after the
\* placement reports the bet, a later one does not
C31_Witness ==
    /\ sim.settle_delay = 2
    /\ "1" \in DOMAIN reports
    /\ reports["1"].fetched = 4
    /\ reports["1"].reported_in = {3}
    /\ "1" \notin DOMAIN sim.pending_bets
    /\ last.op = "get_snapshot"
    /\ last.settlements = {}

\* C30: after any sequence of get_snapshot calls on a SimulatedAPIClient started with
\* a full 416-card shoe (any decrement >= 0, any reset_after), the card counts of
\* every snapshot sum to its cardsRemaining, and cardsRemaining is never negative.
C30_SnapshotCountsSumToRemaining ==
    last.op = "get_snapshot" =>
        /\ SumCounts(last.cardCounts, 1..SIM_RANKS) = last.cardsRemaining
        /\ last.cardsRemaining >= 0

\* a snapshot of a shoe dealt out by a decrement larger than what was left
C30_Witness ==
    /\ last.op = "get_snapshot"
    /\ last.cardsRemaining = 0
    /\ sim.decrement = 50
    /\ sim.reset_after = 0
    /\ sim.iteration = 9

(***************************************************************************)
(* Further properties of the engines and of json_rpc.                      *)
(***************************************************************************)
\* C34: size_stake called with strategy kelly and with price or true_prob absent
\* returns the same stake as proportional sizing called with the same balance,
\* max_exposure_pct, edge and max_stake_pct: 0 if edge <= 0, otherwise
\* balance * max_exposure_pct * min(1, edge/0.1) clamped by both caps.
C34_KellyFallbackIsProportional ==
    (/\ last.op = "size_stake"
     /\ last.args.strategy = "kelly"
     /\ (last.args.price = NoNumber \/ last.args.true_prob = NoNumber))
    => /\ last.ret = size_stake(last.args.balance, last.args.max_exposure_pct,
                                last.args.edge, last.args.price, last.args.true_prob,
                                "proportional", last.args.shrink, last.args.max_stake_pct)
       /\ RLe(last.args.edge, Whole(0)) => last.ret = Whole(0)
       /\ RLt(Whole(0), last.args.edge) =>
              last.ret = RMin3(RMul(RMul(last.args.balance, last.args.max_exposure_pct),
                                    RMin(Whole(1), RDiv(last.args.edge, Rat(1, 10)))),
                               RMul(last.args.balance, last.args.max_exposure_pct),
                               RMul(last.args.balance, last.args.max_stake_pct))

\* C35: in the polling loop an order is submitted for an opportunity only if its
\* edge strictly exceeds the min_edge value configured in bot.min_edge.
C35_SubmittedOnlyAboveConfiguredMinEdge ==
    (last.op = "main_evaluate" /\ last.ret.ok) => RLt(last.args.min_edge, last.ret.edge)

\* C39: every json_rpc call ends either by returning the parsed JSON body of a 200
\* response or by raising; for no sequence of HTTP statuses (including non-error
\* statuses other than 200, such as 204 or 302) does it return None.
C39_NeverReturnsNone ==
    rpc.phase = "returned" =>
        /\ rpc.ret # None
        /\ IsParsed200(rpc.posts[Len(rpc.posts)])
        /\ rpc.ret = resp_json(rpc.posts[Len(rpc.posts)].body)

(***************************************************************************)
(* Further properties of the ledger.                                       *)
(***************************************************************************)
\* C32: for a cleared order that carries no profit field and no commission,
\* process_cleared_order has the same effect on balance, current_exposure, pnl,
\* active_bets and trade_history, and the same return value, as
\* process_settlement(bet_id, outcome, stake * (price - 1)) applied to the same
\* ledger state.
C32_ClearedWithoutProfitIsDirectSettlement ==
    [][(/\ last'.op = "process_cleared_order"
        /\ last'.cleared.profit.kind = "absent"
        /\ (last'.cleared.commissionPaid.kind = "absent" \/ last'.cleared.commissionPaid.v = 0))
       => LET c == last'.cleared
              outcome == IF c.betOutcome # "" THEN c.betOutcome ELSE c.status
              payout == IF c.betId \in DOMAIN active_bets
                        THEN active_bets[c.betId].stake * (active_bets[c.betId].price - 1)
                        ELSE 0
              direct == bm_process_settlement(BM, c.betId, outcome, payout)
          IN /\ balance' = direct.bm.balance
             /\ current_exposure' = direct.bm.current_exposure
             /\ pnl' = direct.bm.pnl
             /\ active_bets' = direct.bm.active_bets
             /\ trade_history' = direct.bm.trade_history
             /\ last'.ret = direct.ret]_vars

\* a won cleared order of an active bet, with neither profit nor commission: stake
\* MaxStake at price 5
C32_Witness ==
    /\ last.op = "process_cleared_order"
    /\ last.cleared.profit.kind = "absent"
    /\ last.cleared.commissionPaid.kind = "absent"
    /\ last.cleared.betOutcome = "WON"
    /\ last.ret = Value(MaxStake * 4)
    /\ pnl = MaxStake * 4
    /\ active_bets = << >>

\* C36: after any sequence of record_accepted, process_settlement and
\* process_cleared_order calls with stakes >= 0, balance + current_exposure equals
\* the initial balance plus pnl.
C36_BalancePlusExposureIsStartPlusPnl ==
    /\ current_exposure = 0 /\ pnl = 0
    /\ [][balance' + current_exposure' - pnl' = balance + current_exposure - pnl]_vars

\* two bets accepted, one settled directly and one by a cleared order with an explicit
\* profit and a commission
C36_Witness ==
    /\ pnl # 0
    /\ \E b \in BetIds : life[b] = "settled"
    /\ \E b \in BetIds : life[b] = "cleared"
    /\ Len(trade_history) = 2
    /\ last.op = "process_cleared_order"
    /\ last.cleared.profit.kind = "num"
    /\ last.cleared.commissionPaid.v = MaxCommission
    /\ active_bets = << >>

\* the ledger after the settlement call `call` (a value of last) is made on bm
AfterCall(bm, call) ==
    IF call.op = "process_settlement"
    THEN bm_process_settlement(bm, call.bet_id, call.status, call.payout).bm
    ELSE bm_process_cleared_order(bm, call.cleared).bm

SameFinalLedger(a, b) ==
    /\ a.balance = b.balance
    /\ a.current_exposure = b.current_exposure
    /\ a.pnl = b.pnl
    /\ a.active_bets = b.active_bets

\* C33: for two distinct active bet ids, settling them in either order (by any mix of
\* process_settlement and process_cleared_order, with the same outcomes) yields the
\* same final balance, current_exposure, pnl and active_bets.  Stated on the step
\* that settles the first bet x while another bet y is active: settling y next gives
\* the ledger that settling y first and then x gives.
C33_SettlementsOfDistinctBetsCommute ==
    [][(/\ last'.op \in {"process_settlement", "process_cleared_order"}
        /\ last'.bet_id \in DOMAIN active_bets)
       => \A y \in (DOMAIN active_bets) \ {last'.bet_id} :
             /\ \A st \in Statuses, p \in Payouts :
                    SameFinalLedger(bm_process_settlement(BM', y, st, p).bm,
                                    AfterCall(bm_process_settlement(BM, y, st, p).bm, last'))
             /\ \A c \in {x \in SettleOrders : x.betId = y} :
                    SameFinalLedger(bm_process_cleared_order(BM', c).bm,
                                    AfterCall(bm_process_cleared_order(BM, c).bm, last'))]_vars

\* both bets were active with different stakes; the first was settled by a cleared
\* order, the second directly
C33_Witness ==
    /\ last.op = "process_settlement"
    /\ last.status = "WON"
    /\ last.ret = Value(MaxPayout)
    /\ active_bets = << >>
    /\ Len(trade_history) = 2
    /\ trade_history[1].bet_id # last.bet_id
    /\ life[trade_history[1].bet_id] = "cleared"
    /\ ncalls = 4
    /\ current_exposure = 0
    /\ balance = StartBalance + pnl

(***************************************************************************)
(* Further properties of the reconciliation.                               *)
(***************************************************************************)
\* the bets active at the start of a step whose cleared order the feed answer of the
\* step's reconcile call held
DeliveredActive == {b \in DOMAIN active_bets : deliveries'[b] > deliveries[b]}

\* C37: for any interleaving of record_accepted and reconcile_cleared_orders calls, if
\* the feed response of a reconcile call contains the cleared order of a bet that is
\* active in the ledger when the call starts, that bet is settled (removed from
\* active_bets, its stake released) when the call returns, also when an earlier
\* reconcile call already saw a cleared order with that id before the bet was
\* accepted.
C37_DeliveredActiveBetIsSettled ==
    [][(/\ ncalls' # ncalls
        /\ last'.op = "reconcile_cleared_orders"
        /\ last'.ret = None)
       => /\ \A b \in DeliveredActive : b \notin DOMAIN active_bets'
          /\ current_exposure' = current_exposure - SumStakesOver(active_bets, DeliveredActive)]_vars

\* C38: across successive successful reconcile_cleared_orders calls,
\* last_cleared_timestamp never moves backwards, whatever cleared orders the feed
\* returns (including orders settled before the current cursor).
C38_CursorNeverMovesBackwards ==
    [][(/\ ncalls' # ncalls
        /\ last'.op = "reconcile_cleared_orders"
        /\ last'.ret = None
        /\ state.last_cleared_timestamp.kind = "iso")
       => /\ state'.last_cleared_timestamp.kind = "iso"
          /\ Instant(state'.last_cleared_timestamp) >= Instant(state.last_cleared_timestamp)]_vars

====
